---- MODULE Spec2Model ----
(***************************************************************************)
(* The retrieval pipeline of the multi-PDF chat backend:                   *)
(*   - ingestion  (backend/vector_utils.py, get_vector_store_optimized):   *)
(*     batch embedding with per-item fallback, record building, batch      *)
(*     upload with retry, backoff and per-record fallback;                 *)
(*   - answering  (backend/vector_utils.py, similarity_search_optimized,   *)
(*     and backend/ai_utils.py, get_response_with_retry).                  *)
(*                                                                         *)
(* Remote services (embedding provider, vector store, language model) are  *)
(* the environment: each call to them nondeterministically succeeds or     *)
(* raises.  Every remote call and every sleep is appended to the history   *)
(* variable `calls`.                                                       *)
(*                                                                         *)
(* Strings are sequences of string atoms; a fixed literal fragment of the  *)
(* source is one atom, text whose characters the code inspects (question,  *)
(* candidate text, model response) is one atom per character.  An f-string *)
(* is the concatenation of its fragments.                                  *)
(***************************************************************************)
EXTENDS Integers, Sequences, FiniteSets, TLC

\* ------------------------------------------------------------------------
\* Bounds of the model
\* ------------------------------------------------------------------------

\* Largest number of text chunks handed to one ingestion call.
MaxChunks == 5

\* embedding_batch_size (vector_utils.py:79) and upload_batch_size
\* (vector_utils.py:141) are both 100 in the source; the model runs the same
\* loops with this smaller batch size so that several batches, full and
\* partial, occur within MaxChunks.
BatchSize == 2

\* index_dim (vector_utils.py:60, default 768), scaled down.
IndexDim == 2

\* Largest k (top_k) passed to the answer call; the source default is 8.
MaxTopK == 1

\* Largest number of candidates one query_vectors reply carries (the request
\* asks for min(3k, 50)).
MaxCandidates == 2

\* The cap of _response_cache (100, vector_utils.py:353) and the cap of
\* _query_embedding_cache (50, vector_utils.py:254), scaled down.
ResponseCacheCap == 2

QueryCacheCap == 1

\* Largest number of chunks one split_text reply carries.
MaxPieces == 2

\* Longest session id.
MaxIdLen == 3

\* Requests in flight at the same time.
MaxRequests == 3

\* Files of one upload.
MaxDocs == 2

\* ------------------------------------------------------------------------
\* Program constants
\* ------------------------------------------------------------------------

\* len(text.strip()) > 100  (vector_utils.py:311)
MinTextLen == 100

\* len(text.strip()) > 50  (vector_utils.py:337)
FallbackMinLen == 50

\* distance < 0.8, in thousandths  (vector_utils.py:313)
DistanceThreshold == 800

\* v.get("distance", 1.0), in thousandths  (vector_utils.py:307)
DefaultDistance == 1000

\* min(k * 3, 50)  (vector_utils.py:264)
MaxTopKRequest == 50

\* max_retries of the query loop  (vector_utils.py:276)
query_max_retries == 3

\* max_retries of get_response_with_retry  (ai_utils.py:121)
gen_max_retries == 3

\* len(response.strip()) > 10  (ai_utils.py:128)
MinResponseLen == 10

\* len(cleaned_chunk) > 100  (ai_utils.py:50)
MinChunkLen == 100

\* len(raw_text.strip()) < 100  (main.py:223)
MinRawTextLen == 100

\* vector_utils.py:153
max_retries == 3

\* ------------------------------------------------------------------------
\* State
\* ------------------------------------------------------------------------
VARIABLES
    ipc,                 \* control point of get_vector_store_optimized
    text_chunks,         \* argument text_chunks
    provider_dim,        \* length of the vectors the embedding provider returns
    all_embeddings,      \* local all_embeddings
    i,                   \* loop variable i of the embedding loop / upload loop
    pos,                 \* items of the current batch already handled one by one
    vectors,             \* local vectors (records prepared for upload)
    retry_count,         \* local retry_count
    batch_success,       \* local batch_success
    successful_uploads,  \* local successful_uploads
    failed_uploads,      \* local failed_uploads
    ierror,              \* exception raised by the ingestion call, or NoError
    remote_index,        \* chunk indexes the vector store acknowledged
    calls,               \* history: remote calls and sleeps of the current call
    apc,                 \* control point of similarity_search_optimized
    question,            \* argument question
    store_name,          \* argument store_name
    k,                   \* argument k
    query_embedding,     \* local query_embedding
    q_retry_count,       \* local retry_count of the query loop
    candidates,          \* local vectors: the candidates the store returned
    filtered_docs,       \* local filtered_docs
    attempt,             \* loop variable attempt of get_response_with_retry
    result,              \* value returned by the answer call
    aerror,              \* exception the answer call raised, or NoError
    response_cache,      \* module global _response_cache
    query_embedding_cache, \* module global _query_embedding_cache
    embeddings_cache,    \* module global _embeddings_cache
    s3vectors_client_cache, \* module global _s3vectors_client_cache
    chain_cache,         \* ai_utils module global _chain_cache
    cpc,                 \* control point of create_vector_index
    index_name,          \* argument store_name of create_vector_index
    s3_bucket,           \* argument s3_bucket of create_vector_index
    cerror,              \* exception create_vector_index raised, or NoError
    remote_indexes,      \* the indexes of the vector store, by name
    \* --- chunking (get_text_chunks_optimized) ---
    kpc,                 \* control point of get_text_chunks_optimized
    raw_text,            \* its argument text
    cleaned_text,        \* the text after the substitutions
    chunk_size,          \* its argument chunk_size
    chunk_overlap,       \* its argument chunk_overlap
    split_chunks,        \* what splitter.split_text returned
    meaningful_chunks,   \* the list it builds and returns
    kerror,              \* exception it raised, or NoError
    \* --- requests (main.py) ---
    session_id,          \* the session id upload_pdfs generated
    request_session_id,  \* the session id of the question asked
    \* --- requests in flight and the handle getters (vector_utils.py:14-54) ---
    hpc,                 \* control point of each request
    running,             \* the request the event loop is running, or None
    lru_slot,            \* what lru_cache holds for get_cached_embeddings
    client_lock,         \* the request that holds _client_lock, or None
    made,                \* the handles constructed so far, by getter
    given,               \* the handles each request was returned so far, by getter
    \* --- upload_pdfs (main.py:184-272) ---
    upc,                 \* control point of upload_pdfs
    file_results,        \* results of gather over process_pdf_file, by file
    temp_paths,          \* local temp_paths: the files collected, in order
    extracted,           \* results of gather over extract_single_pdf, in order
    combined_text,       \* local raw_text: what get_pdf_text_optimized returned
    upload_response,     \* the response of upload_pdfs, or NoResult
    temp_files           \* the files of the request that have a temporary file on disk

ivars == <<ipc, text_chunks, provider_dim, all_embeddings, i, pos, vectors,
           retry_count, batch_success, successful_uploads, failed_uploads,
           ierror, remote_index, calls>>

alocals == <<apc, question, store_name, k, query_embedding, q_retry_count,
             candidates, filtered_docs, attempt, result, aerror>>

caches == <<response_cache, query_embedding_cache>>

avars == <<alocals, caches>>

handles == <<embeddings_cache, s3vectors_client_cache, chain_cache>>

cvars == <<cpc, index_name, s3_bucket, cerror, remote_indexes>>

kvars == <<kpc, raw_text, cleaned_text, chunk_size, chunk_overlap,
           split_chunks, meaningful_chunks, kerror>>

hvars == <<hpc, running, lru_slot, client_lock, made, given>>

uvars == <<upc, file_results, temp_paths, extracted, combined_text,
           upload_response, temp_files>>

xvars == <<session_id, request_session_id, hvars, uvars>>

vars == <<ivars, avars, handles, cvars, kvars, xvars>>

\* ------------------------------------------------------------------------
\* Helpers
\* ------------------------------------------------------------------------
Min(a, b) == IF a < b THEN a ELSE b

Range(s) == {s[j] : j \in 1..Len(s)}

NoError == <<>>

\* One entry of the history: op is the remote operation (or "sleep"), at the
\* 0-based offset of the batch or record concerned, n the number of items sent
\* (seconds for a sleep), ok whether it returned, out the number of vectors an
\* embedding call returned.
Call(op, at, n, ok, out) == [op |-> op, at |-> at, n |-> n, ok |-> ok, out |-> out]

\* index_dim as passed to get_vector_store_optimized.
index_dim == IndexDim

\* seq[i : i + size] of Python, i 0-based.
Slice(seq, from, size) == SubSeq(seq, from + 1, Min(from + size, Len(seq)))

\* The vector the provider computes for a text: every component carries the
\* text it was computed from, so that vectors of different chunks differ.
Embedding(text, dim) == [j \in 1..dim |-> text]

\* A vector that belongs to no input of the call (an over-long provider reply).
StrayText == 0 - 1

\* [0.0] * index_dim  (vector_utils.py:107)
ZeroVector(dim) == [j \in 1..dim |-> 0]

\* What a returning embed_documents call yields for `batch` when the provider
\* sends back `out` vectors: the vectors of the first inputs, then strays.
EmbedDocumentsResult(batch, out) ==
    [j \in 1..out |-> IF j <= Len(batch) THEN Embedding(batch[j], provider_dim)
                      ELSE Embedding(StrayText, provider_dim)]


\* Reply sizes of a returning embed_documents call for n inputs: one vector per
\* input, or a malformed reply with one vector fewer or one more.
EmbedReplySizes(n) == {n - 1, n, n + 1}

\* Vector lengths the provider may use (fixed for one ingestion call).
ProviderDims == {index_dim - 1, index_dim, index_dim + 1}

\* f"chunk_{idx:06d}"  (vector_utils.py:127)
ChunkKey(idx) == <<"chunk_">> \o [d \in 1..6 |-> (idx \div (10 ^ (6 - d))) % 10]

\* Pad or truncate to the expected dimension (vector_utils.py:118-124).
ConformDimension(emb, dim) ==
    IF Len(emb) = dim THEN emb
    ELSE IF Len(emb) > dim THEN SubSeq(emb, 1, dim)
    ELSE emb \o [j \in 1..(dim - Len(emb)) |-> 0]

\* The record built for chunk number idx (0-based) (vector_utils.py:126-134).
\* Chunk texts are opaque here, so metadata.text_length = len(text) is not
\* carried.
VectorRecord(idx, text, emb) ==
    [key      |-> ChunkKey(idx),
     data     |-> [float32 |-> ConformDimension(emb, index_dim)],
     metadata |-> [source_text |-> text, chunk_index |-> idx]]

\* A faulty variant that builds no record for the last chunk.
PrepareVectors_DropsLast(chunks, embs) ==
    [j \in 1..(Min(Len(chunks), Len(embs)) - 1) |->
        VectorRecord(j - 1, chunks[j], embs[j])]

\* zip(text_chunks, all_embeddings), enumerated from 0 (vector_utils.py:117).
PrepareVectors(chunks, embs) ==
    [j \in 1..Min(Len(chunks), Len(embs)) |-> VectorRecord(j - 1, chunks[j], embs[j])]

\* Faulty variant: the fixed one-second pause of the query path.
BackoffWait_Fixed(retries) == 1

\* wait_time = 2 ** retry_count  (vector_utils.py:172)
BackoffWait(retries) == 2 ^ retries

\* raise ValueError(...)
ValueError(msg) == <<"ValueError", msg>>

Raise(err) == ipc' = "raised" /\ ierror' = err

\* ------------------------------------------------------------------------
\* Ingestion: get_vector_store_optimized
\* ------------------------------------------------------------------------
\* No answer call has been made: empty caches (vector_utils.py:16-17).
NoResult == <<>>

\* The handle globals start as None (vector_utils.py:15, 18) and the chain
\* cache empty (ai_utils.py:12).
None == "None"

\* if cache is None: cache = constructor(...); return cache
\* (vector_utils.py:27-34, 41-54; ai_utils.py:84-119)
GetCached(cache, constructed) == IF cache = None THEN constructed ELSE cache

GetCachedEmbeddings ==
    embeddings_cache' = GetCached(embeddings_cache, "GoogleGenerativeAIEmbeddings")

GetS3VectorsClient ==
    s3vectors_client_cache' = GetCached(s3vectors_client_cache, "s3vectors")

GetConversationalChain ==
    chain_cache' = GetCached(chain_cache, "default_chain")

AnswerIdle ==
    /\ apc = "idle"
    /\ question = <<>>
    /\ store_name = <<>>
    /\ k = 0
    /\ query_embedding = <<>>
    /\ q_retry_count = 0
    /\ candidates = <<>>
    /\ filtered_docs = <<>>
    /\ attempt = 0
    /\ result = NoResult
    /\ aerror = NoError
    /\ response_cache = <<>>
    /\ query_embedding_cache = <<>>
    /\ embeddings_cache = None
    /\ s3vectors_client_cache = None
    /\ chain_cache = None

\* The requests the server is given; a handle is named after the request
\* that was being served when it was constructed.
RequestNames == <<"request 1", "request 2", "request 3", "request 4">>

Requests == {RequestNames[j] : j \in 1..MaxRequests}

NoHandles == [embeddings |-> {}, client |-> {}]

\* Every request is accepted and waits for the event loop; no handle has been
\* constructed (vector_utils.py:15, 18, 19).
RequestsIdle ==
    /\ hpc = [t \in Requests |-> "await"]
    /\ running = None
    /\ lru_slot = None
    /\ client_lock = None
    /\ made = NoHandles
    /\ given = [t \in Requests |-> NoHandles]

\* No upload is being handled.
UploadIdle ==
    /\ upc = "idle"
    /\ file_results = <<>>
    /\ temp_paths = <<>>
    /\ extracted = <<>>
    /\ combined_text = <<>>
    /\ upload_response = NoResult
    /\ temp_files = {}

\* No chunking call has been made, and no request.
ChunkerIdle ==
    /\ RequestsIdle
    /\ session_id = <<>>
    /\ request_session_id = <<>>
    /\ kpc = "idle"
    /\ raw_text = <<>>
    /\ cleaned_text = <<>>
    /\ chunk_size = 0
    /\ chunk_overlap = 0
    /\ split_chunks = <<>>
    /\ meaningful_chunks = <<>>
    /\ kerror = NoError

IndexIdle ==
    /\ cpc = "idle"
    /\ index_name = <<>>
    /\ s3_bucket = None
    /\ cerror = NoError
    /\ remote_indexes = <<>>

InitIngest ==
    /\ AnswerIdle
    /\ IndexIdle
    /\ ChunkerIdle
    /\ UploadIdle
    /\ ipc = "entry"
    /\ text_chunks \in {[j \in 1..n |-> j] : n \in 0..MaxChunks}
    /\ provider_dim \in ProviderDims
    /\ all_embeddings = <<>>
    /\ i = 0
    /\ pos = 0
    /\ vectors = <<>>
    /\ retry_count = 0
    /\ batch_success = FALSE
    /\ successful_uploads = 0
    /\ failed_uploads = 0
    /\ ierror = NoError
    /\ remote_index = {}
    /\ calls = <<>>

\* A faulty version that lets an empty chunk list through.
Entry_NoEmptyCheck ==
    /\ ipc = "entry"
    /\ ipc' = "embed_loop" /\ ierror' = ierror /\ GetCachedEmbeddings
    /\ UNCHANGED <<avars, cvars, kvars, xvars, s3vectors_client_cache, chain_cache, text_chunks, provider_dim, all_embeddings, i, pos, vectors,
                   retry_count, batch_success, successful_uploads,
                   failed_uploads, remote_index, calls>>

\* vector_utils.py:68-80: reject an empty chunk list, else start embedding.
Entry ==
    /\ ipc = "entry"
    /\ IF Len(text_chunks) = 0
       THEN Raise(ValueError("Empty text chunks provided")) /\ UNCHANGED embeddings_cache
       ELSE ipc' = "embed_loop" /\ ierror' = ierror /\ GetCachedEmbeddings
    /\ UNCHANGED <<avars, cvars, kvars, xvars, s3vectors_client_cache, chain_cache, text_chunks, provider_dim, all_embeddings, i, pos, vectors,
                   retry_count, batch_success, successful_uploads,
                   failed_uploads, remote_index, calls>>

\* vector_utils.py:83-88: head of the embedding loop.
EmbedLoop ==
    /\ ipc = "embed_loop"
    /\ ipc' = IF i < Len(text_chunks) THEN "embed_batch" ELSE "embed_check"
    /\ UNCHANGED <<avars, cvars, kvars, xvars, handles, text_chunks, provider_dim, all_embeddings, i, pos, vectors,
                   retry_count, batch_success, successful_uploads,
                   failed_uploads, ierror, remote_index, calls>>

\* vector_utils.py:90-94: embed_documents returns; its vectors are appended.
EmbedBatchReturns ==
    /\ ipc = "embed_batch"
    /\ LET batch_chunks == Slice(text_chunks, i, BatchSize)
       IN \E out \in EmbedReplySizes(Len(batch_chunks)) :
            /\ all_embeddings' =
                   all_embeddings \o EmbedDocumentsResult(batch_chunks, out)
            /\ calls' = Append(calls, Call("embed_documents", i,
                                           Len(batch_chunks), TRUE, out))
    /\ i' = i + BatchSize
    /\ ipc' = "embed_loop"
    /\ UNCHANGED <<avars, cvars, kvars, xvars, handles, text_chunks, provider_dim, pos, vectors, retry_count,
                   batch_success, successful_uploads, failed_uploads, ierror,
                   remote_index>>

\* vector_utils.py:96-99: embed_documents raises; fall back to single items.
EmbedBatchRaises ==
    /\ ipc = "embed_batch"
    /\ calls' = Append(calls, Call("embed_documents", i,
                                   Len(Slice(text_chunks, i, BatchSize)), FALSE, 0))
    /\ pos' = 0
    /\ ipc' = "embed_item"
    /\ UNCHANGED <<avars, cvars, kvars, xvars, handles, text_chunks, provider_dim, all_embeddings, i, vectors,
                   retry_count, batch_success, successful_uploads,
                   failed_uploads, ierror, remote_index>>

\* End of one iteration of `for chunk in batch_chunks` (vector_utils.py:100).
EmbedItemDone ==
    IF pos + 1 < Len(Slice(text_chunks, i, BatchSize))
    THEN pos' = pos + 1 /\ i' = i /\ ipc' = "embed_item"
    ELSE pos' = 0 /\ i' = i + BatchSize /\ ipc' = "embed_loop"

\* vector_utils.py:101-103: embed_query returns for one chunk.
EmbedItemReturns ==
    /\ ipc = "embed_item"
    /\ LET chunk == Slice(text_chunks, i, BatchSize)[pos + 1]
       IN /\ all_embeddings' = Append(all_embeddings, Embedding(chunk, provider_dim))
          /\ calls' = Append(calls, Call("embed_query", i + pos, 1, TRUE, 1))
    /\ EmbedItemDone
    /\ UNCHANGED <<avars, cvars, kvars, xvars, handles, text_chunks, provider_dim, vectors, retry_count,
                   batch_success, successful_uploads, failed_uploads, ierror,
                   remote_index>>

\* Faulty variant: the chunk whose embed_query raised gets no vector.
EmbedItemRaises_SkipsChunk ==
    /\ ipc = "embed_item"
    /\ all_embeddings' = all_embeddings
    /\ calls' = Append(calls, Call("embed_query", i + pos, 1, FALSE, 0))
    /\ EmbedItemDone
    /\ UNCHANGED <<avars, cvars, kvars, xvars, handles, text_chunks, provider_dim, vectors, retry_count,
                   batch_success, successful_uploads, failed_uploads, ierror,
                   remote_index>>

\* vector_utils.py:104-107: embed_query raises; a zero vector takes its place.
EmbedItemRaises ==
    /\ ipc = "embed_item"
    /\ all_embeddings' = Append(all_embeddings, ZeroVector(index_dim))
    /\ calls' = Append(calls, Call("embed_query", i + pos, 1, FALSE, 0))
    /\ EmbedItemDone
    /\ UNCHANGED <<avars, cvars, kvars, xvars, handles, text_chunks, provider_dim, vectors, retry_count,
                   batch_success, successful_uploads, failed_uploads, ierror,
                   remote_index>>

\* Faulty variant: the records are prepared without the count check.
CheckAndPrepare_NoCountCheck ==
    /\ ipc = "embed_check"
    /\ vectors' = PrepareVectors(text_chunks, all_embeddings)
    /\ i' = 0
    /\ successful_uploads' = 0
    /\ failed_uploads' = 0
    /\ ipc' = "upload_loop"
    /\ GetS3VectorsClient
    /\ UNCHANGED <<avars, cvars, kvars, xvars, embeddings_cache, chain_cache, text_chunks, provider_dim,
                   all_embeddings, pos, retry_count,
                   batch_success, ierror, remote_index, calls>>

\* vector_utils.py:109-143: count check, then the records are prepared.
CheckAndPrepare ==
    /\ ipc = "embed_check"
    /\ IF Len(all_embeddings) # Len(text_chunks)
       THEN /\ Raise(ValueError("Failed to generate all embeddings"))
            /\ UNCHANGED <<vectors, i, successful_uploads, failed_uploads,
                           s3vectors_client_cache>>
       ELSE /\ vectors' = PrepareVectors(text_chunks, all_embeddings)
            /\ i' = 0
            /\ successful_uploads' = 0
            /\ failed_uploads' = 0
            /\ ipc' = "upload_loop"
            /\ ierror' = ierror
            /\ GetS3VectorsClient
    /\ UNCHANGED <<avars, cvars, kvars, xvars, embeddings_cache, chain_cache, text_chunks, provider_dim,
                   all_embeddings, pos, retry_count,
                   batch_success, remote_index, calls>>

\* vector_utils.py:145-154: head of the upload loop.
UploadLoop ==
    /\ ipc = "upload_loop"
    /\ IF i < Len(vectors)
       THEN /\ retry_count' = 0
            /\ batch_success' = FALSE
            /\ ipc' = "put_batch"
       ELSE /\ ipc' = "summary"
            /\ UNCHANGED <<retry_count, batch_success>>
    /\ UNCHANGED <<avars, cvars, kvars, xvars, handles, text_chunks, provider_dim, all_embeddings, i, pos, vectors,
                   successful_uploads, failed_uploads, ierror, remote_index,
                   calls>>

ChunkIndexes(batch) == {batch[j].metadata.chunk_index : j \in 1..Len(batch)}

\* Faulty variant: a whole batch counted as upload_batch_size records.
BatchUploadCount_FullBatch(batch) == BatchSize

\* successful_uploads += len(batch)  (vector_utils.py:163)
BatchUploadCount(batch) == Len(batch)

\* vector_utils.py:156-165: put_vectors of the whole batch returns.
PutBatchReturns ==
    /\ ipc = "put_batch"
    /\ retry_count < max_retries /\ ~batch_success
    /\ LET batch == Slice(vectors, i, BatchSize)
       IN /\ successful_uploads' = successful_uploads + BatchUploadCount(batch)
          /\ remote_index' = remote_index \cup ChunkIndexes(batch)
          /\ calls' = Append(calls, Call("put_vectors", i, Len(batch), TRUE, 0))
    /\ batch_success' = TRUE
    /\ i' = i + BatchSize
    /\ ipc' = "upload_loop"
    /\ UNCHANGED <<avars, cvars, kvars, xvars, handles, text_chunks, provider_dim, all_embeddings, pos, vectors,
                   retry_count, failed_uploads, ierror>>

\* A faulty version whose loop never gives up on the batch: after the third
\* failure no record is tried on its own and the loop is not left.
PutBatchRaises_NoFallback ==
    /\ ipc = "put_batch"
    /\ retry_count < max_retries /\ ~batch_success
    /\ retry_count' = retry_count + 1
    /\ calls' = calls \o <<Call("put_vectors", i, Len(Slice(vectors, i, BatchSize)), FALSE, 0),
                           Call("sleep", i, BackoffWait(retry_count'), TRUE, 0)>>
    /\ UNCHANGED <<avars, cvars, kvars, xvars, handles, ipc, text_chunks, provider_dim, all_embeddings, i, pos,
                   vectors, batch_success, successful_uploads, failed_uploads, ierror,
                   remote_index>>

\* vector_utils.py:167-177: put_vectors of the whole batch raises; wait and
\* retry, or after the last retry go on record by record.
PutBatchRaises ==
    /\ ipc = "put_batch"
    /\ retry_count < max_retries /\ ~batch_success
    /\ retry_count' = retry_count + 1
    /\ LET failed == Call("put_vectors", i, Len(Slice(vectors, i, BatchSize)), FALSE, 0)
       IN IF retry_count' < max_retries
          THEN /\ calls' = calls \o <<failed, Call("sleep", i, BackoffWait(retry_count'), TRUE, 0)>>
               /\ ipc' = "put_batch"
               /\ pos' = pos
          ELSE /\ calls' = Append(calls, failed)
               /\ ipc' = "put_item"
               /\ pos' = 0
    /\ UNCHANGED <<avars, cvars, kvars, xvars, handles, text_chunks, provider_dim, all_embeddings, i, vectors,
                   batch_success, successful_uploads, failed_uploads, ierror,
                   remote_index>>

\* End of one iteration of `for vector in batch` (vector_utils.py:178); after
\* the last record the while loop ends because retry_count = max_retries.
PutItemDone ==
    IF pos + 1 < Len(Slice(vectors, i, BatchSize))
    THEN pos' = pos + 1 /\ i' = i /\ ipc' = "put_item"
    ELSE pos' = 0 /\ i' = i + BatchSize /\ ipc' = "upload_loop"

\* vector_utils.py:179-185: put_vectors of one record returns.
PutItemReturns ==
    /\ ipc = "put_item"
    /\ LET vector == Slice(vectors, i, BatchSize)[pos + 1]
       IN /\ remote_index' = remote_index \cup {vector.metadata.chunk_index}
          /\ calls' = Append(calls, Call("put_vector", i + pos, 1, TRUE, 0))
    /\ successful_uploads' = successful_uploads + 1
    /\ PutItemDone
    /\ UNCHANGED <<avars, cvars, kvars, xvars, handles, text_chunks, provider_dim, all_embeddings, vectors,
                   retry_count, batch_success, failed_uploads, ierror>>

\* Faulty variant: the failure of a single-record upload is not caught.
PutItemRaises_Propagates ==
    /\ ipc = "put_item"
    /\ calls' = Append(calls, Call("put_vector", i + pos, 1, FALSE, 0))
    /\ Raise(<<"ClientError", "put_vectors">>)
    /\ UNCHANGED <<avars, cvars, kvars, xvars, handles, text_chunks, provider_dim, all_embeddings, i, pos, vectors,
                   retry_count, batch_success, successful_uploads,
                   failed_uploads, remote_index>>

\* vector_utils.py:186-188: put_vectors of one record raises; it is counted.
PutItemRaises ==
    /\ ipc = "put_item"
    /\ calls' = Append(calls, Call("put_vector", i + pos, 1, FALSE, 0))
    /\ failed_uploads' = failed_uploads + 1
    /\ PutItemDone
    /\ UNCHANGED <<avars, cvars, kvars, xvars, handles, text_chunks, provider_dim, all_embeddings, vectors,
                   retry_count, batch_success, successful_uploads, ierror,
                   remote_index>>

\* Faulty variant: a call that stored nothing ends with an error.
Summary_RaisesWhenNothingStored ==
    /\ ipc = "summary"
    /\ IF successful_uploads = 0
       THEN Raise(<<"RuntimeError", "no vectors uploaded">>)
       ELSE ipc' = "returned" /\ ierror' = ierror
    /\ UNCHANGED <<avars, cvars, kvars, xvars, handles, text_chunks, provider_dim, all_embeddings, i, pos, vectors,
                   retry_count, batch_success, successful_uploads,
                   failed_uploads, remote_index, calls>>

\* vector_utils.py:190-211: the summary is logged and the call returns.
Summary ==
    /\ ipc = "summary"
    /\ ipc' = "returned"
    /\ UNCHANGED <<avars, cvars, kvars, xvars, handles, text_chunks, provider_dim, all_embeddings, i, pos, vectors,
                   retry_count, batch_success, successful_uploads,
                   failed_uploads, ierror, remote_index, calls>>

NextIngest ==
    \/ Entry
    \/ EmbedLoop
    \/ EmbedBatchReturns
    \/ EmbedBatchRaises
    \/ EmbedItemReturns
    \/ EmbedItemRaises
    \/ CheckAndPrepare
    \/ UploadLoop
    \/ PutBatchReturns
    \/ PutBatchRaises
    \/ PutItemReturns
    \/ PutItemRaises
    \/ Summary

SpecIngest == InitIngest /\ [][NextIngest]_vars


\* ------------------------------------------------------------------------
\* Strings
\*
\* A string is a run-length encoded sequence: <<[n |-> 3, ch |-> c]>> is
\* "ccc".  Adjacent runs carry different symbols, so equal strings have equal
\* encodings.  A symbol is one character, or a whole literal fragment of the
\* source whose characters the code never inspects.
\* ------------------------------------------------------------------------
StrRun(c, n) == [n |-> n, ch |-> c]

\* c * n
Chars(c, n) == IF n <= 0 THEN <<>> ELSE <<StrRun(c, n)>>

\* A literal fragment of the source.
Lit(text) == <<StrRun(text, 1)>>

\* a + b; each operand is evaluated once, then the runs are joined.
Cat(a, b) ==
    LET Join(x, y) ==
            IF x = <<>> THEN y
            ELSE IF y = <<>> THEN x
            ELSE IF x[Len(x)].ch = y[1].ch
                 THEN SubSeq(x, 1, Len(x) - 1)
                          \o <<StrRun(y[1].ch, x[Len(x)].n + y[1].n)>> \o Tail(y)
                 ELSE x \o y
    IN CHOOSE joined \in {Join(x, y) : x \in {a}, y \in {b}} : TRUE

\* An f-string: the concatenation of its parts.
RECURSIVE Format(_)
Format(parts) ==
    IF parts = <<>> THEN <<>> ELSE Cat(Head(parts), Format(Tail(parts)))

\* len(s)
RECURSIVE StrLen(_)
StrLen(s) == IF s = <<>> THEN 0 ELSE s[1].n + StrLen(Tail(s))

Whitespace == {" ", "\n"}

Digits == {"0", "1", "2", "3", "4", "5", "6", "7", "8", "9"}

\* s.strip()
RECURSIVE LStrip(_)
LStrip(s) ==
    IF s # <<>> /\ s[1].ch \in Whitespace THEN LStrip(Tail(s)) ELSE s

RECURSIVE RStrip(_)
RStrip(s) ==
    IF s # <<>> /\ s[Len(s)].ch \in Whitespace
    THEN RStrip(SubSeq(s, 1, Len(s) - 1))
    ELSE s

Strip(s) == RStrip(LStrip(s))

\* s.lower()
LowerChar(c) == CASE c = "Q" -> "q" [] c = "R" -> "r" [] OTHER -> c

RECURSIVE Lower(_)
Lower(s) ==
    IF s = <<>> THEN <<>>
    ELSE Cat(<<StrRun(LowerChar(s[1].ch), s[1].n)>>, Lower(Tail(s)))

\* s.replace(old, new) for single characters
RECURSIVE ReplaceChar(_, _, _)
ReplaceChar(s, old, new) ==
    IF s = <<>> THEN <<>>
    ELSE Cat(<<StrRun(IF s[1].ch = old THEN new ELSE s[1].ch, s[1].n)>>,
             ReplaceChar(Tail(s), old, new))

\* str(n) for n >= 0
DigitChar(d) == <<"0", "1", "2", "3", "4", "5", "6", "7", "8", "9">>[d + 1]

RECURSIVE FormatInt(_)
FormatInt(n) ==
    IF n < 10 THEN Chars(DigitChar(n), 1)
    ELSE Cat(FormatInt(n \div 10), Chars(DigitChar(n % 10), 1))

\* re.match(r'^\s*[\d\s\-\.]+\s*$', text): the text is not empty and holds
\* nothing but digits, whitespace, '-' and '.'.
MatchesNumericOnly(text) ==
    /\ text # <<>>
    /\ \A j \in 1..Len(text) : text[j].ch \in (Digits \cup Whitespace \cup {"-", "."})

\* ------------------------------------------------------------------------
\* Answering: similarity_search_optimized and get_response_with_retry
\* ------------------------------------------------------------------------
\* The remote calls of an answer call are embed_query, query_vectors and
\* chain.invoke; each may return or raise.  The handles
\* (get_cached_embeddings, get_s3vectors_client, get_conversational_chain)
\* are local objects, constructed on first use and kept in module globals;
\* their construction is taken to succeed.

\* A faulty version that keeps the underscores.
GetSessionIndexName_NoReplace(sid) ==
    Format(<<Lit("s3vector"), Chars("-", 1), Lit("index"), Chars("-", 1), sid>>)

\* f"s3vector-index-{session_id}".replace("_", "-")
\* (main.py:49-51, vector_utils.py:501-503)
GetSessionIndexName(sid) ==
    ReplaceChar(Format(<<Lit("s3vector"), Chars("-", 1), Lit("index"),
                         Chars("-", 1), sid>>), "_", "-")

\* The second definition of get_session_index_name (vector_utils.py:501-503).
VectorUtilsSessionIndexName(sid) ==
    ReplaceChar(Cat(Cat(Lit("s3vector"), Chars("-", 1)),
                    Cat(Cat(Lit("index"), Chars("-", 1)), sid)), "_", "-")

\* Inputs of the answer call.
SessionIds == {Chars("a", 1)}

Questions ==
    {<<>>, Chars(" ", 2), Chars("Q", 1), Cat(Chars(" ", 1), Chars("q", 1))}

\* Texts the store may hold as metadata.source_text.
LongText == Chars("x", MinTextLen + 1)

EdgeText == Chars("x", MinTextLen)

MidText == Chars("x", FallbackMinLen + 1)

ShortText == Chars("x", FallbackMinLen)

NumericText == Cat(Chars("1", MinTextLen), Chars(".", 1))

PaddedLongText == Cat(Chars(" ", 2), Chars("x", MinTextLen - 1))

PaddedMidText == Cat(Chars(" ", 2), Chars("x", FallbackMinLen - 1))

\* One element of response["vectors"], with and without a distance.
Candidate(text, distance) ==
    [metadata |-> [source_text |-> text], distance |-> distance]

CandidateNoDistance(text) == [metadata |-> [source_text |-> text]]

NearDistance == DistanceThreshold - 1

FarDistance == DistanceThreshold

CandidateKinds ==
    {Candidate(LongText, NearDistance),
     Candidate(LongText, FarDistance),
     CandidateNoDistance(LongText),
     Candidate(EdgeText, NearDistance),
     Candidate(NumericText, NearDistance),
     Candidate(PaddedLongText, NearDistance),
     Candidate(MidText, FarDistance),
     Candidate(ShortText, FarDistance),
     Candidate(PaddedMidText, FarDistance)}

\* "topK": min(k * 3, 50)  (vector_utils.py:264)
TopKRequest(kk) == Min(kk * 3, MaxTopKRequest)

\* The replies query_vectors may give to a request for topK candidates.
Replies(topK) ==
    UNION {[1..n -> CandidateKinds] : n \in 0..Min(topK, MaxCandidates)}

\* str(e) of the exceptions the remote services raise.
EmbedErrorText == Lit("embedding provider error")

QueryErrorText == Lit("vector store error")

GenerationErrorText == Lit("generation provider error")

GenerationTimeoutText == Lit("generation timed out")

\* str(e) of the exceptions chain.invoke may raise.
GenerationErrorTexts == {GenerationErrorText, GenerationTimeoutText}

ProviderErrorTexts ==
    {EmbedErrorText, QueryErrorText} \cup GenerationErrorTexts

\* What chain.invoke may return.
ModelResponses == {Chars("a", MinResponseLen + 1), Chars("a", MinResponseLen)}

\* Messages of the answer call.
BlankQuestionMessage == Lit("Please provide a valid question.")

NoRelevantMessage ==
    Lit("No relevant information found in the uploaded documents.")

SearchErrorMessage(e) ==
    Cat(Lit("An error occurred while searching the documents. Please try again. Error: "), e)

ApologyMessage(e) ==
    Cat(Lit("I apologize, but I'm having trouble processing your question right now. Please try rephrasing or try again later. Error: "), e)

UnableMessage == Lit("Unable to generate a response after multiple attempts.")

\* f"resp_{question.lower().strip()}_{store_name}_{k}"  (vector_utils.py:235)
ResponseCacheKey(q, store, kk) ==
    Format(<<Lit("resp"), Chars("_", 1), Strip(Lower(q)), Chars("_", 1), store,
             Chars("_", 1), FormatInt(kk)>>)

\* f"query_{question.lower().strip()}"  (vector_utils.py:246)
QueryCacheKey(q) == Format(<<Lit("query"), Chars("_", 1), Strip(Lower(q))>>)

\* A faulty test that takes only the empty question for blank.
IsBlank_EmptyOnly(q) == q = <<>>

\* not question or not question.strip()  (vector_utils.py:231)
IsBlank(q) == q = <<>> \/ Strip(q) = <<>>

\* cache[key] = value
CachePut(cache, key, value) ==
    [x \in DOMAIN cache \cup {key} |-> IF x = key THEN value ELSE cache[x]]

\* v.get("distance", 1.0)  (vector_utils.py:307)
DistanceOf(v) == IF "distance" \in DOMAIN v THEN v.distance ELSE DefaultDistance

\* A faulty strict filter that does not look at the distance.
PassesStrict_IgnoresDistance(v) ==
    LET text == v.metadata.source_text
    IN /\ text # <<>>
       /\ StrLen(Strip(text)) > MinTextLen
       /\ ~MatchesNumericOnly(text)

\* The condition of the strict filter  (vector_utils.py:310-313)
PassesStrict(v) ==
    LET text == v.metadata.source_text
    IN /\ text # <<>>
       /\ StrLen(Strip(text)) > MinTextLen
       /\ ~MatchesNumericOnly(text)
       /\ DistanceOf(v) < DistanceThreshold

\* Document(...) of the strict filter  (vector_utils.py:315-322)
StrictDocument(v, rank) ==
    [metadata |-> [source_text |-> v.metadata.source_text,
                   similarity_score |-> 1000 - DistanceOf(v),
                   result_rank |-> rank],
     page_content |-> v.metadata.source_text]

\* The scan `for i, v in enumerate(vectors)` from candidate number idx on,
\* with its break once k documents are kept  (vector_utils.py:304-330)
RECURSIVE StrictScan(_, _, _, _)
StrictScan(vs, idx, kept, kk) ==
    IF idx > Len(vs) THEN kept
    ELSE LET now == IF PassesStrict(vs[idx])
                    THEN Append(kept, StrictDocument(vs[idx], idx))
                    ELSE kept
         IN IF Len(now) >= kk THEN now ELSE StrictScan(vs, idx + 1, now, kk)

\* Document(...) of the fallback  (vector_utils.py:338-341)
FallbackDocument(v) ==
    [metadata |-> [source_text |-> v.metadata.source_text],
     page_content |-> v.metadata.source_text]

FallbackUsable(v) ==
    /\ v.metadata.source_text # <<>>
    /\ StrLen(Strip(v.metadata.source_text)) > FallbackMinLen

\* A faulty fallback that applies the distance threshold.
FallbackDocs_WithDistanceFilter(vs, kk) ==
    LET Usable(v) == FallbackUsable(v) /\ DistanceOf(v) < DistanceThreshold
        usable == SelectSeq(SubSeq(vs, 1, Min(kk, Len(vs))), Usable)
    IN [j \in 1..Len(usable) |-> FallbackDocument(usable[j])]

\* The fallback over vectors[:k]  (vector_utils.py:335-341)
FallbackDocs(vs, kk) ==
    LET usable == SelectSeq(SubSeq(vs, 1, Min(kk, Len(vs))), FallbackUsable)
    IN [j \in 1..Len(usable) |-> FallbackDocument(usable[j])]

\* filtered_docs after both passes  (vector_utils.py:302-341)
FilterDocuments(vs, kk) ==
    LET strict == StrictScan(vs, 1, <<>>, kk)
    IN IF strict # <<>> THEN strict ELSE FallbackDocs(vs, kk)

\* A faulty outer handler that lets the exception through.
OuterExcept_Reraises(e) ==
    /\ result' = result
    /\ apc' = "raised"
    /\ aerror' = e

\* except Exception as e: return f"An error occurred ..."
\* (vector_utils.py:361-363)
OuterExcept(e) ==
    /\ result' = SearchErrorMessage(e)
    /\ apc' = "returned"
    /\ aerror' = aerror

\* A faulty version that stores the response whatever the cache holds.
CacheAndReturn_Unbounded(text) ==
    /\ response_cache' =
           CachePut(response_cache, ResponseCacheKey(question, store_name, k), text)
    /\ result' = text
    /\ apc' = "returned"

\* A faulty version that makes room in a full cache by dropping an entry.
CacheAndReturn_Evicts(text) ==
    /\ response_cache' =
           IF Cardinality(DOMAIN response_cache) < ResponseCacheCap
           THEN CachePut(response_cache, ResponseCacheKey(question, store_name, k), text)
           ELSE LET victim == CHOOSE x \in DOMAIN response_cache : TRUE
                    rest == [x \in DOMAIN response_cache \ {victim} |-> response_cache[x]]
                IN CachePut(rest, ResponseCacheKey(question, store_name, k), text)
    /\ result' = text
    /\ apc' = "returned"

\* The response is cached unless the cache is full, and returned
\* (vector_utils.py:352-359)
CacheAndReturn(text) ==
    /\ response_cache' =
           IF Cardinality(DOMAIN response_cache) < ResponseCacheCap
           THEN CachePut(response_cache, ResponseCacheKey(question, store_name, k), text)
           ELSE response_cache
    /\ result' = text
    /\ apc' = "returned"

IngestIdle ==
    /\ ipc = "idle"
    /\ text_chunks = <<>>
    /\ all_embeddings = <<>>
    /\ i = 0
    /\ pos = 0
    /\ vectors = <<>>
    /\ retry_count = 0
    /\ batch_success = FALSE
    /\ successful_uploads = 0
    /\ failed_uploads = 0
    /\ ierror = NoError
    /\ remote_index = {}
    /\ calls = <<>>

InitAnswer ==
    /\ IngestIdle
    /\ IndexIdle
    /\ ChunkerIdle
    /\ UploadIdle
    /\ provider_dim = index_dim
    /\ AnswerIdle

iframe == <<ipc, text_chunks, provider_dim, all_embeddings, i, pos, vectors,
            retry_count, batch_success, successful_uploads, failed_uploads,
            ierror, remote_index>>

\* A faulty version that looks the response up under the question as typed.
AskQuestion_RawLookup(q, sid, kk) ==
    /\ apc \in {"idle", "returned"}
    /\    LET store == GetSessionIndexName(sid)
              rkey == Format(<<Lit("resp"), Chars("_", 1), q, Chars("_", 1), store,
                               Chars("_", 1), FormatInt(kk)>>)
              qkey == QueryCacheKey(q)
          IN /\ question' = q
             /\ store_name' = store
             /\ k' = kk
             /\ IF IsBlank(q)
                THEN /\ result' = BlankQuestionMessage
                     /\ apc' = "returned"
                     /\ query_embedding' = <<>>
                     /\ UNCHANGED <<embeddings_cache, s3vectors_client_cache>>
                ELSE IF rkey \in DOMAIN response_cache
                THEN /\ result' = response_cache[rkey]
                     /\ apc' = "returned"
                     /\ query_embedding' = <<>>
                     /\ UNCHANGED <<embeddings_cache, s3vectors_client_cache>>
                ELSE IF qkey \in DOMAIN query_embedding_cache
                THEN /\ result' = NoResult
                     /\ apc' = "query"
                     /\ query_embedding' = query_embedding_cache[qkey]
                     /\ GetCachedEmbeddings
                     /\ GetS3VectorsClient
                ELSE /\ result' = NoResult
                     /\ apc' = "embed"
                     /\ query_embedding' = <<>>
                     /\ GetCachedEmbeddings
                     /\ UNCHANGED s3vectors_client_cache
    /\ q_retry_count' = 0
    /\ candidates' = <<>>
    /\ filtered_docs' = <<>>
    /\ attempt' = 0
    /\ calls' = <<>>
    /\ UNCHANGED <<aerror, caches, iframe, cvars, kvars, xvars, chain_cache>>

\* A call of similarity_search_optimized up to its first remote call
\* (vector_utils.py:231-250): blank question, cached response, cached query
\* embedding.
AskQuestion(q, sid, kk) ==
    /\ apc \in {"idle", "returned"}
    /\    LET store == GetSessionIndexName(sid)
              rkey == ResponseCacheKey(q, store, kk)
              qkey == QueryCacheKey(q)
          IN /\ question' = q
             /\ store_name' = store
             /\ k' = kk
             /\ IF IsBlank(q)
                THEN /\ result' = BlankQuestionMessage
                     /\ apc' = "returned"
                     /\ query_embedding' = <<>>
                     /\ UNCHANGED <<embeddings_cache, s3vectors_client_cache>>
                ELSE IF rkey \in DOMAIN response_cache
                THEN /\ result' = response_cache[rkey]
                     /\ apc' = "returned"
                     /\ query_embedding' = <<>>
                     /\ UNCHANGED <<embeddings_cache, s3vectors_client_cache>>
                ELSE IF qkey \in DOMAIN query_embedding_cache
                THEN /\ result' = NoResult
                     /\ apc' = "query"
                     /\ query_embedding' = query_embedding_cache[qkey]
                     /\ GetCachedEmbeddings
                     /\ GetS3VectorsClient
                ELSE /\ result' = NoResult
                     /\ apc' = "embed"
                     /\ query_embedding' = <<>>
                     /\ GetCachedEmbeddings
                     /\ UNCHANGED s3vectors_client_cache
    /\ q_retry_count' = 0
    /\ candidates' = <<>>
    /\ filtered_docs' = <<>>
    /\ attempt' = 0
    /\ calls' = <<>>
    /\ UNCHANGED <<aerror, caches, iframe, cvars, kvars, xvars, chain_cache>>

\* An answer call with any of the questions, sessions and k of the model.
Ask ==
    \E q \in Questions, sid \in SessionIds, kk \in 1..MaxTopK :
        AskQuestion(q, sid, kk)

\* vector_utils.py:252-258: embed_query returns; the embedding is cached
\* unless the cache is full.
EmbedQueryReturns ==
    /\ apc = "embed"
    /\ query_embedding' = Embedding(question, provider_dim)
    /\ query_embedding_cache' =
           IF Cardinality(DOMAIN query_embedding_cache) < QueryCacheCap
           THEN CachePut(query_embedding_cache, QueryCacheKey(question),
                         query_embedding')
           ELSE query_embedding_cache
    /\ calls' = Append(calls, Call("embed_query", 0, 1, TRUE, 1))
    /\ apc' = "query"
    /\ GetS3VectorsClient
    /\ UNCHANGED <<question, store_name, k, q_retry_count, candidates,
                   filtered_docs, attempt, result, aerror, response_cache,
                   iframe, cvars, kvars, xvars, embeddings_cache, chain_cache>>

\* vector_utils.py:252, 361-363: embed_query raises.
EmbedQueryRaises ==
    /\ apc = "embed"
    /\ calls' = Append(calls, Call("embed_query", 0, 1, FALSE, EmbedErrorText))
    /\ OuterExcept(EmbedErrorText)
    /\ UNCHANGED <<question, store_name, k, query_embedding, q_retry_count,
                   candidates, filtered_docs, attempt, caches, iframe, cvars, kvars, xvars, handles>>

\* A faulty version that raises when no candidate survives the filters.
QueryReturns_RaisesWithoutDocs ==
    /\ apc = "query"
    /\ q_retry_count < query_max_retries
    /\ \E reply \in Replies(TopKRequest(k)) :
          /\ candidates' = reply
          /\ calls' = Append(calls, Call("query_vectors", q_retry_count,
                                         TopKRequest(k), TRUE, Len(reply)))
          /\ filtered_docs' = FilterDocuments(reply, k)
    /\ IF filtered_docs' = <<>>
       THEN /\ apc' = "raised"
            /\ aerror' = ValueError("no documents")
            /\ result' = result
            /\ UNCHANGED chain_cache
       ELSE /\ apc' = "generate"
            /\ aerror' = aerror
            /\ result' = result
            /\ GetConversationalChain
    /\ attempt' = 0
    /\ UNCHANGED <<question, store_name, k, query_embedding, q_retry_count,
                   caches, iframe, cvars, kvars, xvars, embeddings_cache, s3vectors_client_cache>>

\* vector_utils.py:279-346: query_vectors returns; the candidates are
\* filtered; without documents the fixed message is returned.
QueryReply(reply) ==
    /\ apc = "query"
    /\ q_retry_count < query_max_retries
    /\ candidates' = reply
    /\ calls' = Append(calls, Call("query_vectors", q_retry_count,
                                   TopKRequest(k), TRUE, Len(reply)))
    /\ filtered_docs' = FilterDocuments(reply, k)
    /\ IF filtered_docs' = <<>>
       THEN result' = NoRelevantMessage /\ apc' = "returned" /\ UNCHANGED chain_cache
       ELSE result' = result /\ apc' = "generate" /\ GetConversationalChain
    /\ attempt' = 0
    /\ UNCHANGED <<question, store_name, k, query_embedding, q_retry_count,
                   aerror, caches, iframe, cvars, kvars, xvars, embeddings_cache, s3vectors_client_cache>>

\* query_vectors returns any of the replies of the model.
QueryReturns == \E reply \in Replies(TopKRequest(k)) : QueryReply(reply)

\* A faulty version that pauses after the last attempt as well.
QueryRaises_PausesAfterLast ==
    /\ apc = "query"
    /\ q_retry_count < query_max_retries
    /\ q_retry_count' = q_retry_count + 1
    /\ calls' = calls \o <<Call("query_vectors", q_retry_count, TopKRequest(k),
                                FALSE, QueryErrorText),
                           Call("sleep", q_retry_count, 1, TRUE, 0)>>
    /\ IF q_retry_count' < query_max_retries
       THEN UNCHANGED <<apc, result, aerror>>
       ELSE OuterExcept(QueryErrorText)
    /\ UNCHANGED <<question, store_name, k, query_embedding, candidates,
                   filtered_docs, attempt, caches, iframe, cvars, kvars, xvars, handles>>

\* vector_utils.py:283-289, 361-363: query_vectors raises; pause and retry,
\* or after the last attempt re-raise into the outer handler.
QueryRaises ==
    /\ apc = "query"
    /\ q_retry_count < query_max_retries
    /\ q_retry_count' = q_retry_count + 1
    /\ LET failed == Call("query_vectors", q_retry_count, TopKRequest(k),
                          FALSE, QueryErrorText)
       IN IF q_retry_count' < query_max_retries
          THEN /\ calls' = calls \o <<failed, Call("sleep", q_retry_count, 1, TRUE, 0)>>
               /\ UNCHANGED <<apc, result, aerror>>
          ELSE /\ calls' = Append(calls, failed)
               /\ OuterExcept(QueryErrorText)
    /\ UNCHANGED <<question, store_name, k, query_embedding, candidates,
                   filtered_docs, attempt, caches, iframe, cvars, kvars, xvars, handles>>

\* A faulty version that takes any non-empty response for an answer.
GenerateReturn_AcceptsAny(response) ==
    /\ apc = "generate"
    /\ calls' = Append(calls, Call("invoke", attempt, Len(filtered_docs),
                                   TRUE, response))
    /\ IF response # <<>>
       THEN CacheAndReturn(response) /\ attempt' = attempt
       ELSE IF attempt + 1 < gen_max_retries
       THEN /\ attempt' = attempt + 1
            /\ UNCHANGED <<apc, result, response_cache>>
       ELSE CacheAndReturn(UnableMessage) /\ attempt' = attempt
    /\ UNCHANGED <<question, store_name, k, query_embedding, q_retry_count,
                   candidates, filtered_docs, aerror, query_embedding_cache,
                   iframe, cvars, kvars, xvars, handles>>

\* ai_utils.py:125-131, 137: chain.invoke returns; a response of more than
\* 10 characters is the answer, a shorter one is retried.
GenerateReturn(response) ==
    /\ apc = "generate"
    /\ calls' = Append(calls, Call("invoke", attempt, Len(filtered_docs),
                                   TRUE, response))
    /\ IF response # <<>> /\ StrLen(Strip(response)) > MinResponseLen
       THEN CacheAndReturn(response) /\ attempt' = attempt
       ELSE IF attempt + 1 < gen_max_retries
       THEN /\ attempt' = attempt + 1
            /\ UNCHANGED <<apc, result, response_cache>>
       ELSE CacheAndReturn(UnableMessage) /\ attempt' = attempt
    /\ UNCHANGED <<question, store_name, k, query_embedding, q_retry_count,
                   candidates, filtered_docs, aerror, query_embedding_cache,
                   iframe, cvars, kvars, xvars, handles>>

GenerateReturns == \E response \in ModelResponses : GenerateReturn(response)

\* A faulty version that lets the last exception fall out of the loop.
GenerateRaise_FallsThrough(e) ==
    /\ apc = "generate"
    /\ calls' = Append(calls, Call("invoke", attempt, Len(filtered_docs),
                                   FALSE, e))
    /\ IF attempt = gen_max_retries - 1
       THEN CacheAndReturn(UnableMessage) /\ attempt' = attempt
       ELSE /\ attempt' = attempt + 1
            /\ UNCHANGED <<apc, result, response_cache>>
    /\ UNCHANGED <<question, store_name, k, query_embedding, q_retry_count,
                   candidates, filtered_docs, aerror, query_embedding_cache,
                   iframe, cvars, kvars, xvars, handles>>

\* ai_utils.py:132-135: chain.invoke raises; on the last attempt the apology
\* is the answer.
GenerateRaise(e) ==
    /\ apc = "generate"
    /\ calls' = Append(calls, Call("invoke", attempt, Len(filtered_docs),
                                   FALSE, e))
    /\ IF attempt = gen_max_retries - 1
       THEN CacheAndReturn(ApologyMessage(e)) /\ attempt' = attempt
       ELSE /\ attempt' = attempt + 1
            /\ UNCHANGED <<apc, result, response_cache>>
    /\ UNCHANGED <<question, store_name, k, query_embedding, q_retry_count,
                   candidates, filtered_docs, aerror, query_embedding_cache,
                   iframe, cvars, kvars, xvars, handles>>

GenerateRaises == \E e \in GenerationErrorTexts : GenerateRaise(e)

\* vector_utils.py:408-422: clear_caches, between two answer calls.
ClearCaches ==
    /\ apc \in {"idle", "returned"}
    /\ response_cache' = <<>>
    /\ query_embedding_cache' = <<>>
    /\ UNCHANGED <<alocals, iframe, cvars, kvars, xvars, calls, handles>>

NextAnswer ==
    \/ Ask
    \/ EmbedQueryReturns
    \/ EmbedQueryRaises
    \/ QueryReturns
    \/ QueryRaises
    \/ GenerateReturns
    \/ GenerateRaises
    \/ ClearCaches

SpecAnswer == InitAnswer /\ [][NextAnswer]_vars

\* ------------------------------------------------------------------------
\* The same answer calls over more questions and sessions and fewer replies,
\* so that the caches see several keys and fill up.
\* ------------------------------------------------------------------------
CacheQuestions == Questions \cup {Chars("R", 1)}

CacheSessionIds == {Chars("a", 1), Chars("b", 1)}

CacheReplies == {<<>>, <<Candidate(LongText, NearDistance)>>}

AskRepeated ==
    \E q \in CacheQuestions, sid \in CacheSessionIds, kk \in 1..MaxTopK :
        AskQuestion(q, sid, kk)

QueryReturnsFew == \E reply \in CacheReplies : QueryReply(reply)

GenerateRaisesOne == GenerateRaise(GenerationErrorText)

NextCache ==
    \/ AskRepeated
    \/ EmbedQueryReturns
    \/ EmbedQueryRaises
    \/ QueryReturnsFew
    \/ QueryRaises
    \/ GenerateReturns
    \/ GenerateRaisesOne
    \/ ClearCaches

SpecCache == InitAnswer /\ [][NextCache]_vars

\* ------------------------------------------------------------------------
\* Answer calls for one question, with an embedding provider whose vectors
\* may be shorter or longer than the index dimension.
\* ------------------------------------------------------------------------
InitQuery ==
    /\ IngestIdle
    /\ IndexIdle
    /\ ChunkerIdle
    /\ UploadIdle
    /\ provider_dim \in ProviderDims
    /\ AnswerIdle

AskOne ==
    \E sid \in SessionIds, kk \in 1..MaxTopK : AskQuestion(Chars("Q", 1), sid, kk)

\* What chain.invoke may return here: also an empty response and one of two
\* characters.
GeneratorResponses == ModelResponses \cup {<<>>, Chars("a", 2)}

GenerateReturnsAny ==
    \E response \in GeneratorResponses : GenerateReturn(response)

NextQuery ==
    \/ AskOne
    \/ EmbedQueryReturns
    \/ EmbedQueryRaises
    \/ QueryReturnsFew
    \/ QueryRaises
    \/ GenerateReturnsAny
    \/ GenerateRaises
    \/ ClearCaches

SpecQuery == InitQuery /\ [][NextQuery]_vars

\* ------------------------------------------------------------------------
\* Index creation: create_vector_index  (vector_utils.py:365-406)
\*
\* The vector store answers get_index for an index it holds, or fails (the
\* index is missing, or the request itself failed); it creates an index that
\* is missing, refuses one that exists, and may fail any request.
\* ------------------------------------------------------------------------
IndexSessionIds == {Chars("a", 1), Chars("b", 1), Chars("c", 1)}

S3Bucket == "vector-bucket"

Buckets == {S3Bucket, None}

NotFoundText == Lit("NotFoundException")

ConflictText == Lit("ConflictException")

UnavailableText == Lit("ServiceUnavailableException")

\* The other frames, which index creation leaves alone apart from the client
\* handle and the call log.
cframe == <<iframe, avars, kvars, xvars, embeddings_cache, chain_cache>>

\* vector_utils.py:373-378: the call starts; without a bucket it raises.
CreateVectorIndex ==
    /\ cpc \in {"idle", "returned", "raised"}
    /\ \E sid \in IndexSessionIds, bucket \in Buckets :
          /\ index_name' = GetSessionIndexName(sid)
          /\ s3_bucket' = bucket
          /\ IF bucket = None
             THEN /\ cpc' = "raised"
                  /\ cerror' = ValueError("S3 bucket is required")
                  /\ UNCHANGED s3vectors_client_cache
             ELSE /\ cpc' = "get_index"
                  /\ cerror' = NoError
                  /\ GetS3VectorsClient
    /\ calls' = <<>>
    /\ UNCHANGED <<remote_indexes, cframe>>

\* A faulty version that goes on to create the index it has just found.
GetIndexReturns_CreatesAnyway ==
    /\ cpc = "get_index"
    /\ index_name \in DOMAIN remote_indexes
    /\ calls' = Append(calls, Call("get_index", 0, 1, TRUE, index_name))
    /\ cpc' = "create_index"
    /\ UNCHANGED <<index_name, s3_bucket, cerror, remote_indexes, cframe,
                   s3vectors_client_cache>>

\* vector_utils.py:381-387: the lookup returns; nothing is created.
GetIndexReturns ==
    /\ cpc = "get_index"
    /\ index_name \in DOMAIN remote_indexes
    /\ calls' = Append(calls, Call("get_index", 0, 1, TRUE, index_name))
    /\ cpc' = "returned"
    /\ UNCHANGED <<index_name, s3_bucket, cerror, remote_indexes, cframe,
                   s3vectors_client_cache>>

\* A faulty version that takes only a not-found for a missing index and
\* raises any other lookup error.
GetIndexRaises_OnlyNotFound ==
    /\ cpc = "get_index"
    /\ LET e == IF index_name \in DOMAIN remote_indexes
                THEN UnavailableText ELSE NotFoundText
       IN /\ calls' = Append(calls, Call("get_index", 0, 1, FALSE, e))
          /\ IF e = NotFoundText
             THEN cpc' = "create_index" /\ cerror' = cerror
             ELSE cpc' = "raised" /\ cerror' = e
    /\ UNCHANGED <<index_name, s3_bucket, remote_indexes, cframe,
                   s3vectors_client_cache>>

\* vector_utils.py:388-390: the lookup raises, whatever the reason; the bare
\* except goes on to the creation.
GetIndexRaises ==
    /\ cpc = "get_index"
    /\ calls' = Append(calls, Call("get_index", 0, 1, FALSE,
                                   IF index_name \in DOMAIN remote_indexes
                                   THEN UnavailableText ELSE NotFoundText))
    /\ cpc' = "create_index"
    /\ UNCHANGED <<index_name, s3_bucket, cerror, remote_indexes, cframe,
                   s3vectors_client_cache>>

\* vector_utils.py:394-402: create_index returns; the store holds the index.
CreateIndexReturns ==
    /\ cpc = "create_index"
    /\ index_name \notin DOMAIN remote_indexes
    /\ remote_indexes' =
           CachePut(remote_indexes, index_name,
                    [dataType |-> "float32", dimension |-> index_dim,
                     distanceMetric |-> "cosine"])
    /\ calls' = Append(calls, Call("create_index", 0, 1, TRUE, index_name))
    /\ cpc' = "returned"
    /\ UNCHANGED <<index_name, s3_bucket, cerror, cframe, s3vectors_client_cache>>

\* vector_utils.py:394, 404-406: create_index raises (the index exists, or
\* the request failed); the error is logged and raised again.
CreateIndexRaises ==
    /\ cpc = "create_index"
    /\ \E e \in (IF index_name \in DOMAIN remote_indexes THEN {ConflictText}
                 ELSE {UnavailableText}) :
          /\ calls' = Append(calls, Call("create_index", 0, 1, FALSE, e))
          /\ cerror' = e
    /\ cpc' = "raised"
    /\ UNCHANGED <<index_name, s3_bucket, remote_indexes, cframe,
                   s3vectors_client_cache>>

InitIndex ==
    /\ IngestIdle
    /\ provider_dim = index_dim
    /\ AnswerIdle
    /\ IndexIdle
    /\ ChunkerIdle
    /\ UploadIdle

NextIndex ==
    \/ CreateVectorIndex
    \/ GetIndexReturns
    \/ GetIndexRaises
    \/ CreateIndexReturns
    \/ CreateIndexRaises

SpecIndex == InitIndex /\ [][NextIndex]_vars

\* ------------------------------------------------------------------------
\* Chunking: get_text_chunks_optimized
\* ------------------------------------------------------------------------
\* A fragment of text of the given length that holds letters, no line break
\* and no digit the code looks at.
Fragment(name, length) == <<StrRun(name, length)>>

\* ai_utils.py:27-29: the three substitutions, in order.  The text is taken
\* as blocks, maximal stretches of whitespace and maximal stretches without
\* whitespace.  \n\s*\d+\s*\n matches from the first line break of a
\* whitespace block, over a block of digits, to the last line break of the
\* next whitespace block, and \n\s*Page\s+\d+\s*\n likewise over "Page",
\* whitespace and digits; matches are taken from the left, do not overlap,
\* and the replacement '\n' is not scanned again.
CleanText(t) ==
    LET IsSpaceRun(r) == r.ch \in Whitespace
        RECURSIVE SpanLen(_, _)
        SpanLen(s, space) ==
            IF s # <<>> /\ IsSpaceRun(s[1]) = space
            THEN 1 + SpanLen(Tail(s), space)
            ELSE 0
        RECURSIVE Blocks(_)
        Blocks(s) ==
            IF s = <<>> THEN <<>>
            ELSE LET m == SpanLen(s, IsSpaceRun(s[1]))
                 IN <<SubSeq(s, 1, m)>> \o Blocks(SubSeq(s, m + 1, Len(s)))
        IsSpaceBlock(b) == b # <<>> /\ IsSpaceRun(b[1])
        HasNewline(b) == \E j \in 1..Len(b) : b[j].ch = "\n"
        AllDigits(b) == b # <<>> /\ \A j \in 1..Len(b) : b[j].ch \in Digits
        IsPageWord(b) ==
            /\ Len(b) = 4
            /\ \A j \in 1..4 : b[j].n = 1
            /\ b[1].ch \in {"P", "p"}
            /\ b[2].ch \in {"A", "a"}
            /\ b[3].ch \in {"G", "g"}
            /\ b[4].ch \in {"E", "e"}
        BeforeFirstNewline(b) ==
            LET f == CHOOSE j \in 1..Len(b) :
                         b[j].ch = "\n" /\ \A h \in 1..(j - 1) : b[h].ch # "\n"
            IN SubSeq(b, 1, f - 1)
        AfterLastNewline(b) ==
            LET f == CHOOSE j \in 1..Len(b) :
                         b[j].ch = "\n" /\ \A h \in (j + 1)..Len(b) : b[h].ch # "\n"
            IN SubSeq(b, f + 1, Len(b))
        RestAfter(bs, m) ==
            (IF AfterLastNewline(bs[m]) = <<>> THEN <<>>
             ELSE <<AfterLastNewline(bs[m])>>) \o SubSeq(bs, m + 1, Len(bs))
        NumberLineAt(bs) ==
            /\ Len(bs) >= 3
            /\ IsSpaceBlock(bs[1]) /\ HasNewline(bs[1])
            /\ AllDigits(bs[2])
            /\ HasNewline(bs[3])
        PageLineAt(bs) ==
            /\ Len(bs) >= 5
            /\ IsSpaceBlock(bs[1]) /\ HasNewline(bs[1])
            /\ IsPageWord(bs[2])
            /\ AllDigits(bs[4])
            /\ HasNewline(bs[5])
        RECURSIVE SubNumber(_)
        SubNumber(bs) ==
            IF bs = <<>> THEN <<>>
            ELSE IF NumberLineAt(bs)
                 THEN Format(<<BeforeFirstNewline(bs[1]), Chars("\n", 1),
                               SubNumber(RestAfter(bs, 3))>>)
                 ELSE Cat(bs[1], SubNumber(Tail(bs)))
        RECURSIVE SubPage(_)
        SubPage(bs) ==
            IF bs = <<>> THEN <<>>
            ELSE IF PageLineAt(bs)
                 THEN Format(<<BeforeFirstNewline(bs[1]), Chars("\n", 1),
                               SubPage(RestAfter(bs, 5))>>)
                 ELSE Cat(bs[1], SubPage(Tail(bs)))
        RECURSIVE SubSpace(_)
        SubSpace(bs) ==
            IF bs = <<>> THEN <<>>
            ELSE (IF IsSpaceBlock(bs[1]) THEN Chars(" ", 1) ELSE bs[1])
                     \o SubSpace(Tail(bs))
    IN SubSpace(Blocks(SubNumber(Blocks(SubPage(Blocks(t))))))

\* A faulty test that looks at the length only.
IsMeaningful_LengthOnly(cleaned_chunk) == StrLen(cleaned_chunk) > MinChunkLen

\* ai_utils.py:48-51: a chunk is kept, stripped, when it is longer than 100
\* characters and is not numbers and whitespace only.
IsMeaningful(cleaned_chunk) ==
    StrLen(cleaned_chunk) > MinChunkLen /\ ~MatchesNumericOnly(cleaned_chunk)

RECURSIVE MeaningfulChunks(_)
MeaningfulChunks(chunks) ==
    IF chunks = <<>> THEN <<>>
    ELSE LET cleaned_chunk == Strip(Head(chunks))
         IN (IF IsMeaningful(cleaned_chunk) THEN <<cleaned_chunk>> ELSE <<>>)
                \o MeaningfulChunks(Tail(chunks))

\* What splitter.split_text may return for a text: up to MaxPieces pieces,
\* each a stretch of the text between two run boundaries and no longer than
\* chunk_size; pieces may overlap and need not cover the text.
Pieces(t, size) ==
    {p \in {SubSeq(t, a, b) : a \in 1..Len(t), b \in 1..Len(t)} :
        p # <<>> /\ StrLen(p) <= size}

SplitResults(t, size) ==
    UNION {[1..n -> Pieces(t, size)] : n \in 0..MaxPieces}

\* ai_utils.py:14-37: the call up to the construction of the splitter.  A
\* blank text returns no chunks; RecursiveCharacterTextSplitter rejects a
\* chunk_overlap larger than chunk_size with a ValueError, outside the try.
GetTextChunks(t, size, overlap) ==
    /\ kpc = "idle"
    /\ raw_text' = t
    /\ chunk_size' = size
    /\ chunk_overlap' = overlap
    /\ split_chunks' = <<>>
    /\ meaningful_chunks' = <<>>
    /\ calls' = <<>>
    /\ IF IsBlank(t)
       THEN cleaned_text' = <<>> /\ kpc' = "returned" /\ kerror' = NoError
       ELSE /\ cleaned_text' = CleanText(t)
            /\ IF overlap > size
               THEN /\ kpc' = "raised"
                    /\ kerror' = ValueError("Got a larger chunk overlap than chunk size")
               ELSE kpc' = "split" /\ kerror' = NoError
    /\ UNCHANGED <<iframe, avars, handles, cvars, xvars>>

\* ai_utils.py:39-40, 45-54: split_text returns; the chunks are filtered and
\* returned.
SplitReturns ==
    /\ kpc = "split"
    /\ \E pieces \in SplitResults(cleaned_text, chunk_size) :
          /\ split_chunks' = pieces
          /\ meaningful_chunks' = MeaningfulChunks(pieces)
          /\ calls' = Append(calls, Call("split_text", 0, Len(pieces), TRUE, 0))
    /\ kpc' = "returned"
    /\ UNCHANGED <<raw_text, cleaned_text, chunk_size, chunk_overlap, kerror,
                   iframe, avars, handles, cvars, xvars>>

\* ai_utils.py:41-43: split_text raises; no chunks are returned.
SplitRaises ==
    /\ kpc = "split"
    /\ split_chunks' = <<>>
    /\ meaningful_chunks' = <<>>
    /\ calls' = Append(calls, Call("split_text", 0, 0, FALSE, 0))
    /\ kpc' = "returned"
    /\ UNCHANGED <<raw_text, cleaned_text, chunk_size, chunk_overlap, kerror,
                   iframe, avars, handles, cvars, xvars>>

\* Texts to chunk.
LongWord == Chars("x", MinChunkLen + 1)

EdgeWord == Chars("x", MinChunkLen)

LongNumber == Chars("1", MinChunkLen + 1)

PageLine == Format(<<Chars("P", 1), Chars("a", 1), Chars("g", 1),
                     Chars("e", 1), Chars(" ", 1), Chars("1", 1),
                     Chars("2", 1)>>)

ChunkerTexts ==
    { <<>>,
      Format(<<Chars(" ", 2), Chars("\n", 1)>>),
      Format(<<Chars(" ", 1), LongWord, Chars("\n", 1), LongNumber,
               Chars(".", 1)>>),
      Format(<<Chars(" ", 1), EdgeWord, Chars(" ", 2), Chars("-", 1)>>),
      Format(<<LongWord, Chars("\n", 1), PageLine, Chars("\n", 1),
               Chars("y", MinChunkLen + 1)>>),
      Format(<<Chars("\n", 1), Chars("1", 1), Chars("2", 1), Chars("\n", 1)>>),
      Format(<<LongWord, Chars("\n", 1), Chars(" ", 1), Chars("7", 2),
               Chars("\n", 2), Chars("8", 1), Chars("\n", 1), LongNumber>>) }

\* chunk_size=1500, chunk_overlap=300 are the defaults (ai_utils.py:14).
ChunkSizes == {50, 1500}

ChunkOverlaps == {0, 300}

Chunk ==
    \E t \in ChunkerTexts, size \in ChunkSizes, overlap \in ChunkOverlaps :
        GetTextChunks(t, size, overlap)

InitChunk ==
    /\ IngestIdle
    /\ provider_dim = index_dim
    /\ AnswerIdle
    /\ IndexIdle
    /\ ChunkerIdle
    /\ UploadIdle

NextChunk ==
    \/ Chunk
    \/ SplitReturns
    \/ SplitRaises

SpecChunk == InitChunk /\ [][NextChunk]_vars

\* ------------------------------------------------------------------------
\* Three short chunks, one of them a page number: either the list is
\* ingested as it is, or the text they make is chunked with chunk_size=50.
\* ------------------------------------------------------------------------
SkyChunk == Fragment("The sky is blue and vast.", 25)

WaterChunk == Fragment("Water boils at 100 degrees Celsius.", 35)

ScenarioChunks == <<SkyChunk, WaterChunk, PageLine>>

ScenarioText ==
    Format(<<SkyChunk, Chars("\n", 1), WaterChunk, Chars("\n", 1), PageLine>>)

ScenarioChunkSize == 50

InitScenario ==
    /\ AnswerIdle
    /\ IndexIdle
    /\ ChunkerIdle
    /\ UploadIdle
    /\ ipc = "entry"
    /\ text_chunks = ScenarioChunks
    /\ provider_dim \in ProviderDims
    /\ all_embeddings = <<>>
    /\ i = 0
    /\ pos = 0
    /\ vectors = <<>>
    /\ retry_count = 0
    /\ batch_success = FALSE
    /\ successful_uploads = 0
    /\ failed_uploads = 0
    /\ ierror = NoError
    /\ remote_index = {}
    /\ calls = <<>>

IngestScenario == kpc = "idle" /\ Entry

ChunkScenario ==
    /\ ipc = "entry"
    /\ \E overlap \in ChunkOverlaps :
          GetTextChunks(ScenarioText, ScenarioChunkSize, overlap)

NextScenario ==
    \/ IngestScenario
    \/ ChunkScenario
    \/ SplitReturns
    \/ SplitRaises
    \/ EmbedLoop
    \/ EmbedBatchReturns
    \/ EmbedBatchRaises
    \/ EmbedItemReturns
    \/ EmbedItemRaises
    \/ CheckAndPrepare
    \/ UploadLoop
    \/ PutBatchReturns
    \/ PutBatchRaises
    \/ PutItemReturns
    \/ PutItemRaises
    \/ Summary

SpecScenario == InitScenario /\ [][NextScenario]_vars

\* ------------------------------------------------------------------------
\* Index names: an upload names the index of its new session, a question
\* names the index of the session it quotes.
\* ------------------------------------------------------------------------
\* The session ids of up to MaxIdLen characters over a letter, '-' and '_'.
SessionIdChars == {"a", "-", "_"}

AllSessionIds ==
    UNION {{Format([j \in 1..m |-> Chars(cs[j], 1)]) :
               cs \in [1..m -> SessionIdChars]} : m \in 1..MaxIdLen}

HasUnderscore(sid) == \E j \in 1..Len(sid) : sid[j].ch = "_"

\* str(uuid.uuid4()) holds hexadecimal digits and '-' only (main.py:193).
UploadSessionIds == {sid \in AllSessionIds : ~HasUnderscore(sid)}

\* main.py:193, 233: upload_pdfs names the index it creates.
UploadNamesIndex ==
    \E sid \in UploadSessionIds :
        /\ session_id' = sid
        /\ index_name' = GetSessionIndexName(sid)
        /\ UNCHANGED <<ivars, avars, handles, kvars, hvars, uvars, request_session_id, cpc,
                       s3_bucket, cerror, remote_indexes>>

\* main.py:285, 290: ask_question names the index it searches; the session
\* id is whatever the request carries.
AskNamesIndex ==
    \E sid \in AllSessionIds :
        /\ request_session_id' = sid
        /\ store_name' = GetSessionIndexName(sid)
        /\ UNCHANGED <<ivars, handles, cvars, kvars, hvars, uvars, session_id, caches, apc,
                       question, k, query_embedding, q_retry_count,
                       candidates, filtered_docs, attempt, result, aerror>>

NextNames ==
    \/ UploadNamesIndex
    \/ AskNamesIndex

SpecNames == InitChunk /\ [][NextNames]_vars

\* ------------------------------------------------------------------------
\* One ingestion call that runs to its end, and then answer calls, with the
\* program taking its next step whenever it has one: a remote call returns or
\* raises, time.sleep returns, and nothing else is waited for.  Asking a
\* question is up to the user and is not forced.
\* ------------------------------------------------------------------------
LiveChunks == BatchSize + 1

InitLive ==
    /\ InitIngest
    /\ Len(text_chunks) <= LiveChunks
    /\ provider_dim = index_dim

IngestEnded == ipc \in {"returned", "raised"}

AnswerEnded == apc \in {"idle", "returned", "raised"}

AskAfterUpload == IngestEnded /\ AskOne

ProgramStep ==
    \/ NextIngest
    \/ EmbedQueryReturns
    \/ EmbedQueryRaises
    \/ QueryReturnsFew
    \/ QueryRaises
    \/ GenerateReturns
    \/ GenerateRaisesOne

NextLive ==
    \/ AskAfterUpload
    \/ ProgramStep

SpecLive == InitLive /\ [][NextLive]_vars /\ WF_vars(ProgramStep)

\* ------------------------------------------------------------------------
\* The handle getters under concurrent requests
\* (get_cached_embeddings, vector_utils.py:21-34; get_s3vectors_client,
\* vector_utils.py:36-54)
\*
\* A request in flight waits ("await"), then runs its synchronous stretch,
\* in which it calls the getters any number of times, and ends.  Every
\* handler of main.py is an `async def` that calls vector_utils without an
\* await in between (main.py:232-239, 285-291), so on the event loop a
\* stretch is not interrupted: preemptive = FALSE.  With preemptive = TRUE
\* the callers are threads, which may be switched between any two steps.
\* ------------------------------------------------------------------------
CanRun_Always(t, preemptive) == TRUE

\* The event loop runs one coroutine until it awaits or ends.
CanRun(t, preemptive) == preemptive \/ running \in {None, t}

\* The request keeps the event loop while its stretch lasts.
Keeps(t, preemptive) == running' = (IF preemptive THEN running ELSE t)

HandleFrame ==
    UNCHANGED <<ivars, avars, cvars, kvars, uvars, chain_cache, session_id,
                request_session_id>>

Outside(t) == hpc[t] \in {"await", "between"}

GoTo(t, pc) == hpc' = [hpc EXCEPT ![t] = pc]

\* get_cached_embeddings() as request t runs it, one step at a time.
GetCachedEmbeddingsStep(t, preemptive) ==
    /\ CanRun(t, preemptive)
    /\ Keeps(t, preemptive)
    /\ HandleFrame
    /\ UNCHANGED <<s3vectors_client_cache, client_lock>>
    /\ \/ \* vector_utils.py:21: lru_cache answers from its slot, or calls the function
          /\ Outside(t)
          /\ IF lru_slot # None
             THEN /\ given' = [given EXCEPT ![t].embeddings = @ \cup {lru_slot}]
                  /\ GoTo(t, "between")
             ELSE /\ given' = given
                  /\ GoTo(t, "embeddings test")
          /\ UNCHANGED <<embeddings_cache, lru_slot, made>>
       \/ \* vector_utils.py:28: if _embeddings_cache is None
          /\ hpc[t] = "embeddings test"
          /\ GoTo(t, IF embeddings_cache = None THEN "embeddings construct"
                                                ELSE "embeddings return")
          /\ UNCHANGED <<embeddings_cache, lru_slot, made, given>>
       \/ \* vector_utils.py:29-32: _embeddings_cache = GoogleGenerativeAIEmbeddings(...)
          /\ hpc[t] = "embeddings construct"
          /\ embeddings_cache' = t
          /\ made' = [made EXCEPT !.embeddings = @ \cup {t}]
          /\ GoTo(t, "embeddings return")
          /\ UNCHANGED <<lru_slot, given>>
       \/ \* vector_utils.py:34: return _embeddings_cache; lru_cache keeps the
          \* result unless its slot was filled meanwhile
          /\ hpc[t] = "embeddings return"
          /\ lru_slot' = (IF lru_slot = None THEN embeddings_cache ELSE lru_slot)
          /\ given' = [given EXCEPT ![t].embeddings = @ \cup {embeddings_cache}]
          /\ GoTo(t, "between")
          /\ UNCHANGED <<embeddings_cache, made>>

\* A faulty second test that takes the client for missing whatever it reads.
StillMissing_NotTested(cache) == TRUE

\* vector_utils.py:43: the test repeated under the lock.
StillMissing(cache) == cache = None

\* get_s3vectors_client() as request t runs it, one step at a time.
GetS3VectorsClientStep(t, preemptive) ==
    /\ CanRun(t, preemptive)
    /\ Keeps(t, preemptive)
    /\ HandleFrame
    /\ UNCHANGED <<embeddings_cache, lru_slot>>
    /\ \/ \* vector_utils.py:41: if _s3vectors_client_cache is None
          /\ Outside(t)
          /\ GoTo(t, IF s3vectors_client_cache = None THEN "client acquire"
                                                      ELSE "client return")
          /\ UNCHANGED <<s3vectors_client_cache, client_lock, made, given>>
       \/ \* vector_utils.py:42: with _client_lock, entered when the lock is free
          /\ hpc[t] = "client acquire"
          /\ client_lock = None
          /\ client_lock' = t
          /\ GoTo(t, "client retest")
          /\ UNCHANGED <<s3vectors_client_cache, made, given>>
       \/ \* vector_utils.py:43: the second test
          /\ hpc[t] = "client retest"
          /\ GoTo(t, IF StillMissing(s3vectors_client_cache) THEN "client construct"
                                                             ELSE "client release")
          /\ UNCHANGED <<s3vectors_client_cache, client_lock, made, given>>
       \/ \* vector_utils.py:44-52: _s3vectors_client_cache = boto3.client(...)
          /\ hpc[t] = "client construct"
          /\ s3vectors_client_cache' = t
          /\ made' = [made EXCEPT !.client = @ \cup {t}]
          /\ GoTo(t, "client release")
          /\ UNCHANGED <<client_lock, given>>
       \/ \* end of the with block: the lock is released
          /\ hpc[t] = "client release"
          /\ client_lock' = None
          /\ GoTo(t, "client return")
          /\ UNCHANGED <<s3vectors_client_cache, made, given>>
       \/ \* vector_utils.py:54: return _s3vectors_client_cache
          /\ hpc[t] = "client return"
          /\ given' = [given EXCEPT ![t].client = @ \cup {s3vectors_client_cache}]
          /\ GoTo(t, "between")
          /\ UNCHANGED <<s3vectors_client_cache, client_lock, made>>

\* The handler returns: the request is over and the event loop is free.
RequestEnds(t, preemptive) ==
    /\ CanRun(t, preemptive)
    /\ hpc[t] = "between"
    /\ GoTo(t, "done")
    /\ running' = None
    /\ HandleFrame
    /\ UNCHANGED <<embeddings_cache, s3vectors_client_cache, lru_slot, client_lock,
                   made, given>>

\* The requests as the server runs them, on one event loop.
NextLoop ==
    \E t \in Requests :
        \/ GetCachedEmbeddingsStep(t, FALSE)
        \/ GetS3VectorsClientStep(t, FALSE)
        \/ RequestEnds(t, FALSE)

SpecLoop == InitChunk /\ [][NextLoop]_vars

\* get_s3vectors_client called from threads, as its lock provides for.
NextThreads ==
    \E t \in Requests :
        \/ GetS3VectorsClientStep(t, TRUE)
        \/ RequestEnds(t, TRUE)

SpecThreads == InitChunk /\ [][NextThreads]_vars

\* ------------------------------------------------------------------------
\* Upload: upload_pdfs  (main.py:184-272), process_pdf_file (main.py:145-167)
\* and get_pdf_text_optimized (pdf_utils.py:9-53)
\* ------------------------------------------------------------------------
DocNames == <<"document 1", "document 2", "document 3">>

\* The text of a file: longer than the shortest text and chunk accepted.
DocText(d) == Fragment(DocNames[d], MinChunkLen + 1)

UploadFrame ==
    UNCHANGED <<avars, handles, cvars, kvars, hvars, session_id, request_session_id>>

Responds(status, detail) ==
    /\ upc' = "responded"
    /\ upload_response' = <<status, detail>>

\* main.py:170-181: cleanup_temp_files(paths) removes the file of every path
\* that exists; files that are not in paths stay.
CleanupTempFiles(paths) ==
    temp_files' = temp_files \ {paths[j] : j \in DOMAIN paths}

\* main.py:193-204: the request arrives; a file that is no PDF, or too
\* large, is refused.
UploadPdfs ==
    /\ upc = "idle"
    /\ \E n \in 1..MaxDocs, valid \in BOOLEAN :
          IF valid
          THEN /\ file_results' = [d \in 1..n |-> "pending"]
               /\ upc' = "process"
               /\ upload_response' = upload_response
          ELSE /\ file_results' = file_results
               /\ Responds(400, <<"Only PDF files are allowed", 0>>)
    /\ UNCHANGED <<ivars, temp_paths, extracted, combined_text, temp_files>>
    /\ UploadFrame

\* main.py:145-167: one of the tasks of the gather ends, with the tuple
\* (temp_path, metadata) and its temporary file written, or with the
\* HTTPException of its handler, which has removed the file.
ProcessPdfFile ==
    /\ upc = "process"
    /\ \E d \in DOMAIN file_results, outcome \in {"tuple", "HTTPException"} :
          /\ file_results[d] = "pending"
          /\ file_results' = [file_results EXCEPT ![d] = outcome]
          /\ temp_files' = IF outcome = "tuple" THEN temp_files \cup {d} ELSE temp_files
    /\ UNCHANGED <<ivars, upc, temp_paths, extracted, combined_text, upload_response>>
    /\ UploadFrame

\* A faulty version that leaves a failed file out and goes on with the rest.
CollectResults_SkipsFailed ==
    /\ upc = "process"
    /\ \A d \in DOMAIN file_results : file_results[d] # "pending"
    /\ temp_paths' = SelectSeq([d \in DOMAIN file_results |-> d],
                               LAMBDA d : file_results[d] = "tuple")
    /\ upc' = "extract"
    /\ UNCHANGED <<ivars, file_results, extracted, combined_text, upload_response,
                   temp_files>>
    /\ UploadFrame

\* main.py:209-218: the gather has returned every result; the results are
\* taken in order and the first that is no tuple ends the upload with a 400.
CollectResults ==
    /\ upc = "process"
    /\ \A d \in DOMAIN file_results : file_results[d] # "pending"
    /\ LET failed == {d \in DOMAIN file_results : file_results[d] # "tuple"}
           first == CHOOSE d \in failed : \A e \in failed : d <= e
       IN IF failed = {}
          THEN /\ temp_paths' = [d \in DOMAIN file_results |-> d]
               /\ upc' = "extract"
               /\ upload_response' = upload_response
               /\ temp_files' = temp_files
          ELSE /\ temp_paths' = [d \in 1..(first - 1) |-> d]
               /\ CleanupTempFiles([d \in 1..(first - 1) |-> d])
               /\ Responds(400, <<"Failed to process", first>>)
    /\ UNCHANGED <<ivars, file_results, extracted, combined_text>>
    /\ UploadFrame

\* pdf_utils.py:16-38: the next file's text is extracted with PyMuPDF, or
\* after its failure with PyPDF2, or not at all: then the result is "".
\* The coroutines await nothing, so they run one after the other.
ExtractSinglePdf ==
    /\ upc = "extract"
    /\ Len(extracted) < Len(temp_paths)
    /\ \E outcome \in {"fitz", "fallback", "none"} :
          extracted' = Append(extracted,
                              IF outcome = "none" THEN <<>>
                              ELSE DocText(temp_paths[Len(extracted) + 1]))
    /\ UNCHANGED <<ivars, upc, file_results, temp_paths, combined_text, upload_response,
                   temp_files>>
    /\ UploadFrame

\* pdf_utils.py:44-53, main.py:221-224: the texts are joined in order; too
\* little text ends the upload with a 400.
CombineText ==
    /\ upc = "extract"
    /\ Len(extracted) = Len(temp_paths)
    /\ combined_text' = Format(extracted)
    /\ IF combined_text' = <<>> \/ StrLen(Strip(combined_text')) < MinRawTextLen
       THEN /\ Responds(400, <<"No meaningful text found in the uploaded PDFs", 0>>)
            /\ CleanupTempFiles(temp_paths)
       ELSE /\ upc' = "chunk"
            /\ upload_response' = upload_response
            /\ temp_files' = temp_files
    /\ UNCHANGED <<ivars, file_results, temp_paths, extracted>>
    /\ UploadFrame

\* main.py:227: get_text_chunks_optimized(raw_text), with its defaults.
UploadChunks ==
    /\ upc = "chunk"
    /\ GetTextChunks(combined_text, 1500, 300)

\* main.py:229-236: without chunks the upload ends with a 400; else the
\* index is ensured.
UploadChecksChunks ==
    /\ upc = "chunk"
    /\ kpc = "returned"
    /\ IF meaningful_chunks = <<>>
       THEN /\ Responds(400, <<"Failed to create text chunks from PDFs", 0>>)
            /\ CleanupTempFiles(temp_paths)
            /\ text_chunks' = text_chunks
       ELSE /\ upc' = "index"
            /\ upload_response' = upload_response
            /\ temp_files' = temp_files
            /\ text_chunks' = meaningful_chunks
    /\ UNCHANGED <<ipc, provider_dim, all_embeddings, i, pos, vectors, retry_count,
                   batch_success, successful_uploads, failed_uploads, ierror,
                   remote_index, calls, file_results, temp_paths, extracted,
                   combined_text>>
    /\ UploadFrame

\* main.py:236: create_vector_index(index_name, ...).
UploadCreatesIndex ==
    /\ upc = "index"
    /\ cpc = "idle"
    /\ CreateVectorIndex

\* A faulty version that ingests whether or not the index was ensured.
UploadIngests_Regardless ==
    /\ upc = "index"
    /\ cpc \in {"returned", "raised"}
    /\ ipc = "idle"
    /\ ipc' = "entry"
    /\ upc' = "ingest"
    /\ UNCHANGED <<text_chunks, provider_dim, all_embeddings, i, pos, vectors, retry_count,
                   batch_success, successful_uploads, failed_uploads, ierror,
                   remote_index, calls, file_results, temp_paths, extracted,
                   combined_text, upload_response, temp_files>>
    /\ UploadFrame

\* main.py:239: get_vector_store_optimized(text_chunks, index_name, ...),
\* once create_vector_index has returned.
UploadIngests ==
    /\ upc = "index"
    /\ cpc = "returned"
    /\ ipc = "idle"
    /\ ipc' = "entry"
    /\ upc' = "ingest"
    /\ UNCHANGED <<text_chunks, provider_dim, all_embeddings, i, pos, vectors, retry_count,
                   batch_success, successful_uploads, failed_uploads, ierror,
                   remote_index, calls, file_results, temp_paths, extracted,
                   combined_text, upload_response, temp_files>>
    /\ UploadFrame

\* main.py:268-272: an exception of create_vector_index or of
\* get_vector_store_optimized ends the upload with a 500, after the cleanup
\* of the collected files.
UploadFails ==
    /\ \/ upc = "index" /\ cpc = "raised"
       \/ upc = "ingest" /\ ipc = "raised"
    /\ Responds(500, <<"Upload processing failed", 0>>)
    /\ CleanupTempFiles(temp_paths)
    /\ UNCHANGED <<ivars, file_results, temp_paths, extracted, combined_text>>
    /\ UploadFrame

\* main.py:241-263: the upload is answered with its counts.
UploadSucceeds ==
    /\ upc = "ingest"
    /\ ipc = "returned"
    /\ Responds(200, <<"success", Len(text_chunks)>>)
    /\ UNCHANGED <<ivars, file_results, temp_paths, extracted, combined_text,
                   temp_files>>
    /\ UploadFrame

\* main.py:253: background_tasks.add_task(cleanup_temp_files, temp_paths);
\* the task runs once, after the response has been sent.
BackgroundCleanup ==
    /\ upc = "responded"
    /\ upload_response # NoResult
    /\ upload_response[1] = 200
    /\ temp_files \cap {temp_paths[j] : j \in DOMAIN temp_paths} # {}
    /\ CleanupTempFiles(temp_paths)
    /\ UNCHANGED <<ivars, upc, file_results, temp_paths, extracted, combined_text,
                   upload_response>>
    /\ UploadFrame

\* From create_vector_index to the response.  The index of a new session is
\* not in the store, so its lookup fails.
IndexAndIngest ==
    \/ UploadCreatesIndex
    \/ GetIndexRaises
    \/ CreateIndexReturns
    \/ CreateIndexRaises
    \/ UploadIngests
    \/ NextIngest
    \/ UploadFails
    \/ UploadSucceeds
    \/ BackgroundCleanup

NextUpload ==
    \/ UploadPdfs
    \/ ProcessPdfFile
    \/ CollectResults
    \/ ExtractSinglePdf
    \/ CombineText
    \/ UploadChunks
    \/ SplitReturns
    \/ SplitRaises
    \/ UploadChecksChunks
    \/ IndexAndIngest

SpecUpload == InitChunk /\ [][NextUpload]_vars

\* The same uploads, with the background task of a sent response run in the
\* end: the server runs the tasks of a response once it has sent it.
SpecUploadFair == SpecUpload /\ WF_vars(BackgroundCleanup)

\* An upload that has its chunks (main.py:227-230) and is about to ensure
\* the index, for any list of up to LiveChunks chunks.
InitOrder ==
    /\ AnswerIdle
    /\ IndexIdle
    /\ ChunkerIdle
    /\ upc = "index"
    /\ file_results = [d \in 1..1 |-> "tuple"]
    /\ temp_paths = <<1>>
    /\ extracted = <<DocText(1)>>
    /\ combined_text = DocText(1)
    /\ upload_response = NoResult
    /\ temp_files = {1}
    /\ ipc = "idle"
    /\ text_chunks \in {[j \in 1..n |-> j] : n \in 1..LiveChunks}
    /\ provider_dim = index_dim
    /\ all_embeddings = <<>>
    /\ i = 0
    /\ pos = 0
    /\ vectors = <<>>
    /\ retry_count = 0
    /\ batch_success = FALSE
    /\ successful_uploads = 0
    /\ failed_uploads = 0
    /\ ierror = NoError
    /\ remote_index = {}
    /\ calls = <<>>

SpecOrder == InitOrder /\ [][IndexAndIngest]_vars

\* ------------------------------------------------------------------------
\* Reading the history
\* ------------------------------------------------------------------------
NumChunks == Len(text_chunks)

CallIdx == 1..Len(calls)

CallsOf(op) == {j \in CallIdx : calls[j].op = op}

\* Whole-batch upload attempts for the batch starting at offset a.
BatchPuts(a) == {j \in CallsOf("put_vectors") : calls[j].at = a}

\* Single-record upload attempts for record number r (0-based).
RecordPuts(r) == {j \in CallsOf("put_vector") : calls[j].at = r}

FailedRecordPuts == {j \in CallsOf("put_vector") : ~calls[j].ok}

UploadCalls == CallsOf("put_vectors") \cup CallsOf("put_vector")

\* Offsets at which the batches of n records start, and their sizes.
BatchOffsets(n) == {a \in 0..(n - 1) : a % BatchSize = 0}

BatchLen(n, a) == IF a + BatchSize <= n THEN BatchSize ELSE n - a

CeilDiv(n, d) == (n + d - 1) \div d

\* The batch starting at a has been left by the upload loop.
BatchFinished(a) ==
    \/ ipc \in {"summary", "returned"}
    \/ ipc \in {"upload_loop", "put_batch", "put_item"} /\ i > a

UploadPcs == {"upload_loop", "put_batch", "put_item", "summary"}

\* ------------------------------------------------------------------------
\* C1: the records are uploaded in document order in ceil(N/BatchSize)
\* batches, all full except possibly a smaller last one, and when the call
\* returns successful_uploads + failed_uploads = N, failed_uploads being
\* exactly the number of records whose individual fallback upload failed.
\* ------------------------------------------------------------------------
C1_UploadAccounting ==
    /\ \A j \in CallsOf("put_vectors") :
          /\ calls[j].at \in BatchOffsets(NumChunks)
          /\ calls[j].n = BatchLen(NumChunks, calls[j].at)
          /\ \A h \in CallsOf("put_vectors") : h < j => calls[h].at <= calls[j].at
    /\ ipc = "returned" =>
          /\ {calls[j].at : j \in CallsOf("put_vectors")} = BatchOffsets(NumChunks)
          /\ Cardinality(BatchOffsets(NumChunks)) = CeilDiv(NumChunks, BatchSize)
          /\ successful_uploads + failed_uploads = NumChunks
          /\ failed_uploads = Cardinality(FailedRecordPuts)
          /\ successful_uploads = Cardinality(remote_index)

\* A call with two full batches and a smaller last one returned, one batch
\* having gone through the fallback with both outcomes.
C1_Witness ==
    /\ ipc = "returned"
    /\ NumChunks > 2 * BatchSize
    /\ NumChunks % BatchSize # 0
    /\ failed_uploads > 0
    /\ \E j \in CallsOf("put_vector") : calls[j].ok
    /\ \E j \in CallsOf("put_vectors") : calls[j].ok

\* ------------------------------------------------------------------------
\* C2: per upload batch, at most 3 whole-batch attempts; after the k-th
\* failed attempt (k < 3) a wait of 2^k seconds (2, then 4) and the next
\* attempt; the per-record fallback only after the 3rd failed attempt, each
\* record of the batch exactly once; none for a batch uploaded whole.
\* ------------------------------------------------------------------------
AttemptNo(j) == Cardinality({h \in BatchPuts(calls[j].at) : h <= j})

C2_RetryBackoffFallback ==
    /\ \A j \in CallsOf("put_vectors") :
          /\ AttemptNo(j) <= 3
          /\ (~calls[j].ok /\ AttemptNo(j) < 3) =>
                /\ j + 1 \in CallIdx
                /\ calls[j + 1].op = "sleep"
                /\ calls[j + 1].n = (IF AttemptNo(j) = 1 THEN 2 ELSE 4)
                /\ (j + 2 \in CallIdx =>
                       calls[j + 2].op = "put_vectors" /\ calls[j + 2].at = calls[j].at)
          /\ (~calls[j].ok /\ AttemptNo(j) = 3) =>
                (j + 1 \in CallIdx =>
                    calls[j + 1].op = "put_vector" /\ calls[j + 1].at = calls[j].at)
          /\ calls[j].ok => (j + 1 \in CallIdx => calls[j + 1].op = "put_vectors")
    /\ \A j \in CallsOf("sleep") :
          j > 1 /\ calls[j - 1].op = "put_vectors" /\ ~calls[j - 1].ok
    /\ \A j \in CallsOf("put_vector") :
          LET a == calls[j].at - (calls[j].at % BatchSize)
          IN /\ Cardinality({h \in BatchPuts(a) : h < j /\ ~calls[h].ok}) = 3
             /\ \A h \in BatchPuts(a) : ~calls[h].ok
             /\ Cardinality(RecordPuts(calls[j].at)) = 1
    /\ \A a \in BatchOffsets(Len(vectors)) :
          (BatchFinished(a) /\ \A h \in BatchPuts(a) : ~calls[h].ok) =>
              \A r \in a..(a + BatchLen(Len(vectors), a) - 1) :
                  Cardinality(RecordPuts(r)) = 1

\* One batch failed three times and was then uploaded record by record, and
\* another batch went through on a retry.
C2_Witness ==
    /\ ipc = "returned"
    /\ \E a \in BatchOffsets(NumChunks) :
          /\ Cardinality(BatchPuts(a)) = 3
          /\ \A h \in BatchPuts(a) : ~calls[h].ok
          /\ BatchLen(NumChunks, a) > 1
    /\ \E a \in BatchOffsets(NumChunks) :
          /\ Cardinality(BatchPuts(a)) > 1
          /\ \E h \in BatchPuts(a) : calls[h].ok

\* ------------------------------------------------------------------------
\* C3: upload failures never make the ingestion call raise: a call that
\* raised made no upload call at all, no upload step is a dead end, and a
\* call that returned went through every batch and reports the failures in
\* its counters.
\* ------------------------------------------------------------------------
C3_UploadFailuresNeverRaise ==
    /\ ipc = "raised" => UploadCalls = {}
    /\ ipc \in UploadPcs => ENABLED NextIngest
    /\ ipc = "returned" =>
          /\ ierror = NoError
          /\ \A a \in BatchOffsets(NumChunks) : BatchPuts(a) # {}
          /\ (FailedRecordPuts # {} <=> failed_uploads > 0)

\* A call returned although a whole batch and a single record failed before
\* its last batch was uploaded.
C3_Witness ==
    /\ ipc = "returned"
    /\ failed_uploads > 0
    /\ \E j \in FailedRecordPuts : \E h \in CallsOf("put_vectors") :
          h > j /\ calls[h].ok


\* ------------------------------------------------------------------------
\* C4: chunks are embedded in batches of BatchSize; the single-item calls
\* are made for every chunk of a batch whose batch call failed and for no
\* other chunk; a failed single-item call leaves an all-zero vector of the
\* configured dimension; if every returning batch call gave one vector per
\* input, the stage ends with N vectors, vector i being that of chunk i.
\* ------------------------------------------------------------------------
EmbedPcs == {"embed_loop", "embed_batch", "embed_item"}

EmbedBatchCalls(a) == {j \in CallsOf("embed_documents") : calls[j].at = a}

EmbedItemCalls(r) == {j \in CallsOf("embed_query") : calls[j].at = r}

EmbedBatchFinished(a) ==
    \/ ipc \in EmbedPcs /\ i > a
    \/ ipc \notin (EmbedPcs \cup {"entry"})

HonestProvider ==
    \A j \in CallsOf("embed_documents") : calls[j].ok => calls[j].out = calls[j].n

C4_EmbeddingFallback ==
    /\ \A j \in CallsOf("embed_documents") :
          /\ calls[j].at \in BatchOffsets(NumChunks)
          /\ calls[j].n = BatchLen(NumChunks, calls[j].at)
          /\ Cardinality(EmbedBatchCalls(calls[j].at)) = 1
    /\ \A j \in CallsOf("embed_query") :
          LET a == calls[j].at - (calls[j].at % BatchSize)
          IN /\ \E h \in EmbedBatchCalls(a) : h < j /\ ~calls[h].ok
             /\ Cardinality(EmbedItemCalls(calls[j].at)) = 1
    /\ \A a \in BatchOffsets(NumChunks) :
          (EmbedBatchFinished(a) /\ \E h \in EmbedBatchCalls(a) : ~calls[h].ok) =>
              \A r \in a..(a + BatchLen(NumChunks, a) - 1) :
                  Cardinality(EmbedItemCalls(r)) = 1
    /\ ipc \in EmbedPcs => ENABLED NextIngest
    /\ (ipc = "embed_check" /\ HonestProvider) =>
          /\ Len(all_embeddings) = NumChunks
          /\ \A r \in 0..(NumChunks - 1) :
                all_embeddings[r + 1] =
                    IF \E j \in EmbedItemCalls(r) : ~calls[j].ok
                    THEN [h \in 1..index_dim |-> 0]
                    ELSE [h \in 1..provider_dim |-> text_chunks[r + 1]]

\* The stage ended after a batch call that returned, a batch call that
\* failed, and single-item calls of both outcomes.
C4_Witness ==
    /\ ipc = "embed_check"
    /\ HonestProvider
    /\ NumChunks > BatchSize
    /\ \E j \in CallsOf("embed_documents") : calls[j].ok
    /\ \E j \in CallsOf("embed_query") : calls[j].ok
    /\ \E j \in CallsOf("embed_query") : ~calls[j].ok

\* ------------------------------------------------------------------------
\* C5: when the embedding stage ends with a number of embeddings different
\* from the number of chunks, the call raises and makes no upload call.
\* ------------------------------------------------------------------------
C5_MismatchIsFatal ==
    (/\ ipc \notin (EmbedPcs \cup {"entry", "embed_check"})
     /\ Len(all_embeddings) # NumChunks) =>
        /\ ipc = "raised"
        /\ ierror = <<"ValueError", "Failed to generate all embeddings">>
        /\ UploadCalls = {}
        /\ remote_index = {}

\* The count check has run on a short or long list of embeddings.
C5_Witness ==
    /\ ipc = "raised"
    /\ Len(all_embeddings) # NumChunks
    /\ \E j \in CallsOf("embed_documents") : calls[j].ok /\ calls[j].out # calls[j].n

\* ------------------------------------------------------------------------
\* C6 as stated: an ingestion call whose every whole-batch upload and every
\* individual upload failed, so that no record was stored, ends with an
\* error raised to the caller instead of returning.
\* ------------------------------------------------------------------------
EveryUploadFailed ==
    /\ UploadCalls # {}
    /\ \A j \in UploadCalls : ~calls[j].ok

C6_TotalUploadFailureRaises ==
    (ipc \in {"returned", "raised"} /\ EveryUploadFailed /\ remote_index = {}) =>
        ipc = "raised"

\* C6 as amended: an ingestion call whose every whole-batch upload and every
\* individual upload failed still returns normally, with successful_uploads
\* = 0 and failed_uploads = N in its summary and no error; no pattern of
\* upload failures ends the call with an error.
C6_TotalUploadFailureReturns ==
    /\ (ipc \in {"returned", "raised"} /\ EveryUploadFailed) =>
          /\ ipc = "returned"
          /\ ierror = NoError
          /\ remote_index = {}
          /\ successful_uploads = 0
          /\ failed_uploads = NumChunks
    /\ (ipc \in {"returned", "raised"} /\ UploadCalls # {}) => ipc = "returned"

\* A call over several batches returned with nothing stored.
C6_Witness ==
    /\ ipc = "returned"
    /\ NumChunks > BatchSize
    /\ EveryUploadFailed
    /\ remote_index = {}

\* ------------------------------------------------------------------------
\* Reading an answer call
\* ------------------------------------------------------------------------
\* The query of this call has returned candidates and they were filtered.
Filtered == apc \in {"generate", "returned"} /\ candidates # <<>>

\* The documents the strict filter produced carry a similarity score and the
\* rank of their candidate; the documents of the fallback carry neither.
IsStrictDoc(d) == "similarity_score" \in DOMAIN d.metadata

StrictKept == SelectSeq(filtered_docs, IsStrictDoc)

LastCall == calls[Len(calls)]

\* The call went through the answer generator over filtered_docs and returned
\* what the generator returned: the model's response, or the generator's own
\* message when the model gave none.
GeneratorReturned ==
    /\ calls # <<>>
    /\ LastCall.op = "invoke"
    /\ LastCall.n = Len(filtered_docs)
    /\ result = IF ~LastCall.ok THEN ApologyMessage(LastCall.out)
                ELSE IF StrLen(Strip(LastCall.out)) > MinResponseLen
                     THEN LastCall.out
                     ELSE UnableMessage

TrimmedLen(v) == StrLen(Strip(v.metadata.source_text))

\* The candidates among the first top_k whose trimmed text is longer than
\* 50 characters, by rank.
BestEffortRanks ==
    {j \in 1..Min(k, Len(candidates)) : TrimmedLen(candidates[j]) > FallbackMinLen}

\* ------------------------------------------------------------------------
\* C7: for a non-blank question whose query returned at least one candidate,
\* all of them at a distance of 0.8 or more (or without a distance), the call
\* does not raise: it goes on to the answer generator over fallback documents
\* taken from the candidates and returns what the generator returns, or it
\* returns "No relevant information found in the uploaded documents."
\* ------------------------------------------------------------------------
ThresholdEliminatesAll ==
    /\ candidates # <<>>
    /\ \A j \in 1..Len(candidates) :
          \/ "distance" \notin DOMAIN candidates[j]
          \/ candidates[j].distance >= DistanceThreshold

FromCandidates(d) ==
    /\ ~IsStrictDoc(d)
    /\ \E j \in 1..Len(candidates) :
          d.page_content = candidates[j].metadata.source_text

C7_ThresholdFallbackOrMessage ==
    (~IsBlank(question) /\ ThresholdEliminatesAll) =>
        /\ apc \in {"generate", "returned"}
        /\ aerror = NoError
        /\ \A j \in 1..Len(filtered_docs) : FromCandidates(filtered_docs[j])
        /\ apc = "generate" => filtered_docs # <<>> /\ attempt < gen_max_retries
        /\ apc = "returned" =>
              \/ filtered_docs = <<>> /\ result = NoRelevantMessage
              \/ filtered_docs # <<>> /\ GeneratorReturned

\* A call returned the model's answer over fallback documents, one of them
\* from a candidate without a distance.
C7_Witness ==
    /\ apc = "returned"
    /\ ~IsBlank(question)
    /\ ThresholdEliminatesAll
    /\ \E j \in 1..Len(candidates) : "distance" \notin DOMAIN candidates[j]
    /\ filtered_docs # <<>>
    /\ result \in ModelResponses

\* ------------------------------------------------------------------------
\* C8: the answer call never raises, whatever fails among the embedding
\* call, the vector-store query and the generation call: a call in progress
\* has attempts left for its next step, a finished call has returned a
\* non-empty string,
\* and after a failure that string is the explanatory message for it, never
\* the provider's error text itself.
\* ------------------------------------------------------------------------
C8_NeverRaises ==
    /\ apc \in {"idle", "embed", "query", "generate", "returned"}
    /\ aerror = NoError
    /\ apc = "query" => q_retry_count < query_max_retries
    /\ apc = "generate" => attempt < gen_max_retries
    /\ apc = "returned" =>
          /\ StrLen(result) > 0
          /\ result \notin ProviderErrorTexts
          /\ (calls # <<>> /\ ~LastCall.ok) =>
                /\ LastCall.out \in ProviderErrorTexts
                /\ result = IF LastCall.op = "invoke"
                            THEN ApologyMessage(LastCall.out)
                            ELSE SearchErrorMessage(LastCall.out)

\* A call whose query failed and was retried, and whose generation failed
\* on every attempt, has returned.
C8_Witness ==
    /\ apc = "returned"
    /\ calls # <<>>
    /\ LastCall.op = "invoke"
    /\ ~LastCall.ok
    /\ \E j \in 1..Len(calls) : calls[j].op = "query_vectors" /\ ~calls[j].ok

\* ------------------------------------------------------------------------
\* C9: the strict filter
\* ------------------------------------------------------------------------
NotOnlyNumeric(v) ==
    \E j \in 1..Len(v.metadata.source_text) :
        v.metadata.source_text[j].ch \notin (Digits \cup Whitespace \cup {"-", "."})

BelowThreshold(v) == "distance" \in DOMAIN v /\ v.distance < DistanceThreshold

\* The ranks kept by a scan in rank order that keeps the acceptable
\* candidates and stops at top_k.
FirstAcceptable(Acceptable(_)) ==
    LET ranks == {j \in 1..Len(candidates) : Acceptable(candidates[j])}
    IN {j \in ranks : Cardinality({m \in ranks : m < j}) < k}

\* The strict filter kept exactly the candidates of these ranks, in rank
\* order, each with its text, and no more than top_k documents go to the
\* answer generator.
StrictKeeps(ranks) ==
    /\ {StrictKept[j].metadata.result_rank : j \in 1..Len(StrictKept)} = ranks
    /\ Len(StrictKept) = Cardinality(ranks)
    /\ \A j \in 1..Len(StrictKept) :
          /\ StrictKept[j].page_content =
                 candidates[StrictKept[j].metadata.result_rank].metadata.source_text
          /\ j > 1 => StrictKept[j - 1].metadata.result_rank
                          < StrictKept[j].metadata.result_rank
    /\ StrictKept # <<>> => filtered_docs = StrictKept
    /\ Len(filtered_docs) <= k
    /\ \A j \in 1..Len(calls) : calls[j].op = "invoke" => calls[j].n <= k

AcceptableAsStated(v) ==
    /\ StrLen(v.metadata.source_text) > MinTextLen
    /\ NotOnlyNumeric(v)
    /\ BelowThreshold(v)

AcceptableTrimmed(v) ==
    /\ TrimmedLen(v) > MinTextLen
    /\ NotOnlyNumeric(v)
    /\ BelowThreshold(v)

FallbackIs(ranks) ==
    /\ Len(filtered_docs) = Cardinality(ranks)
    /\ \A j \in 1..Len(filtered_docs) :
          \E r \in ranks :
              /\ Cardinality({m \in ranks : m < r}) = j - 1
              /\ filtered_docs[j].page_content = candidates[r].metadata.source_text
              /\ filtered_docs[j].metadata = candidates[r].metadata

AnswerGenerated ==
    /\ filtered_docs # <<>>
    /\ apc = "generate" \/ (apc = "returned" /\ GeneratorReturned)

SameRequestAgain ==
    /\ apc = "returned"
    /\ UNCHANGED caches
    /\ Strip(Lower(question')) = Strip(Lower(question))
    /\ store_name' = store_name
    /\ k' = k

\* The second call returned at once what the first returned, without any
\* remote call.
ServedWithoutCalls ==
    /\ apc' = "returned"
    /\ result' = result
    /\ calls' = <<>>

\* C11 as stated: the second of any two successive calls for the same
\* request returns the first call's answer and makes no embedding,
\* vector-store or generation call.  (Calls with a clear in between are left
\* out: the query-embedding cache still holds an entry.)
C11_SecondCallHitsAsStated ==
    [][(SameRequestAgain /\ query_embedding_cache # <<>>) => ServedWithoutCalls]_vars

\* C11 as amended: when the first call has returned and the response cache
\* holds its answer under the request's key (the answer generator produced it
\* while the cache had room, or it was itself served from the cache), the
\* second call for the same request returns the same answer and makes no
\* embedding, vector-store or generation call.
C11_SecondCallHitsWhenStored ==
    [][(/\ SameRequestAgain
        /\ ~IsBlank(question)
        /\ ResponseCacheKey(question, store_name, k) \in DOMAIN response_cache)
          => /\ ServedWithoutCalls
             /\ result' = response_cache[ResponseCacheKey(question, store_name, k)]]_vars

\* A call was served from the response cache although its question is
\* spelled differently from the one the cached answer was generated for.
C11_Witness ==
    /\ apc = "returned"
    /\ ~IsBlank(question)
    /\ calls = <<>>
    /\ ResponseCacheKey(question, store_name, k) \in DOMAIN response_cache
    /\ result = response_cache[ResponseCacheKey(question, store_name, k)]
    /\ QueryCacheKey(question) \in DOMAIN query_embedding_cache
    /\ query_embedding_cache[QueryCacheKey(question)][1] # question

\* ------------------------------------------------------------------------
\* C12: for an empty or whitespace-only question the answer call returns at
\* once exactly "Please provide a valid question.", makes no embedding,
\* vector-store or generation call and leaves the response cache and the
\* query-embedding cache as they were.
\* ------------------------------------------------------------------------
OnlyWhitespace(q) == \A j \in 1..Len(q) : q[j].ch \in Whitespace

\* A step that starts an answer call (a clear changes only the caches).
StartsCall ==
    /\ apc \in {"idle", "returned"}
    /\ ~UNCHANGED <<alocals, calls>>

C12_BlankQuestionRejected ==
    [][(StartsCall /\ OnlyWhitespace(question')) =>
          /\ apc' = "returned"
          /\ result' = BlankQuestionMessage
          /\ calls' = <<>>
          /\ UNCHANGED caches]_vars

\* A whitespace-only question was rejected while both caches held entries.
C12_Witness ==
    /\ apc = "returned"
    /\ question # <<>>
    /\ OnlyWhitespace(question)
    /\ result = BlankQuestionMessage
    /\ calls = <<>>
    /\ response_cache # <<>>
    /\ query_embedding_cache # <<>>

\* ------------------------------------------------------------------------
\* C13: whatever answer calls and clears have happened, the response cache
\* never holds more entries than its cap (100 in the source) and the
\* query-embedding cache never more than its own cap (50 in the source).
\* ------------------------------------------------------------------------
C13_CachesBounded ==
    /\ Cardinality(DOMAIN response_cache) <= ResponseCacheCap
    /\ Cardinality(DOMAIN query_embedding_cache) <= QueryCacheCap

\* Both caches are full and a call has returned a generated answer that was
\* stored in neither.
C13_Witness ==
    /\ apc = "returned"
    /\ GeneratorReturned
    /\ Cardinality(DOMAIN response_cache) = ResponseCacheCap
    /\ Cardinality(DOMAIN query_embedding_cache) = QueryCacheCap
    /\ ResponseCacheKey(question, store_name, k) \notin DOMAIN response_cache
    /\ QueryCacheKey(question) \notin DOMAIN query_embedding_cache

\* ------------------------------------------------------------------------
\* C14: after the clear operation returns, the response cache, the
\* query-embedding cache and the cached provider and client handles are all
\* empty, whatever they held before.
\* ------------------------------------------------------------------------
\* A step of the clear operation that found something in a cache.
ClearStep ==
    /\ apc \in {"idle", "returned"}
    /\ UNCHANGED <<alocals, calls>>
    /\ caches' # caches

C14_ClearResetsEveryCache ==
    [][ClearStep =>
          /\ response_cache' = <<>>
          /\ query_embedding_cache' = <<>>
          /\ embeddings_cache' = None
          /\ s3vectors_client_cache' = None
          /\ chain_cache' = None]_vars

\* ------------------------------------------------------------------------
\* C15: create_vector_index on an index that an earlier call created
\* ------------------------------------------------------------------------
\* The call is for an index the store already holds and did not create it.
IndexExistedBefore ==
    /\ cpc \in {"get_index", "create_index", "returned", "raised"}
    /\ s3_bucket # None
    /\ index_name \in DOMAIN remote_indexes
    /\ \A j \in 1..Len(calls) : ~(calls[j].op = "create_index" /\ calls[j].ok)

C16_VectorsHaveIndexDimension ==
    /\ \A j \in 1..Len(vectors) : Len(vectors[j].data.float32) = index_dim
    /\ (apc \in {"query", "generate", "returned"} /\ query_embedding # <<>>) =>
          Len(query_embedding) = index_dim

\* ------------------------------------------------------------------------
\* C17: the answer generator's attempts
\* ------------------------------------------------------------------------
InvokeCalls == {j \in 1..Len(calls) : calls[j].op = "invoke"}

\* The generation call is made at most 3 times, numbered in order; a
\* response that is good enough is returned at once with no further call;
\* after an exception or another response the call is made again unless that
\* was the third; nothing is raised.
GeneratorDiscipline(GoodEnough(_)) ==
    /\ Cardinality(InvokeCalls) <= 3
    /\ apc # "raised"
    /\ aerror = NoError
    /\ \A j \in InvokeCalls :
          /\ calls[j].at = Cardinality({m \in InvokeCalls : m < j})
          /\ IF calls[j].ok /\ GoodEnough(calls[j].out)
             THEN j = Len(calls) /\ apc = "returned" /\ result = calls[j].out
             ELSE IF calls[j].at < 2
             THEN \/ j = Len(calls) /\ apc = "generate" /\ attempt = calls[j].at + 1
                  \/ j < Len(calls) /\ calls[j + 1].op = "invoke"
             ELSE j = Len(calls) /\ apc = "returned" /\ StrLen(result) > 0

AtLeastTen(response) == StrLen(Strip(response)) >= 10

LongerThanTen(response) == StrLen(Strip(response)) > 10

\* C17 as stated: at most 3 generation calls per question; the first
\* response whose trimmed length is at least 10 characters is returned
\* without a further call; an exception or a response shorter than 10
\* characters is retried; the generator never raises.
C17_GeneratorRetriesAsStated == GeneratorDiscipline(AtLeastTen)

\* C17 as amended: at most 3 generation calls per question; the first
\* response whose trimmed length is more than 10 characters is returned
\* without a further call; an exception or a response of 10 characters or
\* fewer is retried; the generator never raises.
C17_GeneratorRetries == GeneratorDiscipline(LongerThanTen)

\* The third call gave the answer, after an exception and a response of
\* exactly 10 characters.
C17_Witness ==
    /\ apc = "returned"
    /\ Cardinality(InvokeCalls) = 3
    /\ \E j \in InvokeCalls : ~calls[j].ok
    /\ \E j \in InvokeCalls : calls[j].ok /\ StrLen(Strip(calls[j].out)) = 10
    /\ LastCall.ok
    /\ result = LastCall.out
    /\ StrLen(Strip(result)) = 11

\* ------------------------------------------------------------------------
\* C18: what the answer generator returns when no attempt gave an answer
\* ------------------------------------------------------------------------
\* The generator has returned after 3 generation calls none of which gave a
\* response that is good enough.
AllAttemptsFailed(GoodEnough(_)) ==
    /\ apc = "returned"
    /\ Cardinality(InvokeCalls) = 3
    /\ \A j \in InvokeCalls : ~calls[j].ok \/ ~GoodEnough(calls[j].out)

\* C18 as stated: whenever all 3 generation attempts fail, by exception, by
\* a response shorter than 10 characters, or any mix of the two in any
\* order, the generator returns the apology that embeds the last error
\* encountered.
C18_ApologyAsStated ==
    AllAttemptsFailed(AtLeastTen) =>
        \E j \in InvokeCalls :
            /\ ~calls[j].ok
            /\ \A m \in InvokeCalls : m > j => calls[m].ok
            /\ result = ApologyMessage(calls[j].out)

\* C18 as amended: whenever all 3 generation attempts fail, the generator
\* returns the apology that embeds the third attempt's error if the third
\* attempt raised, and the fixed message "Unable to generate a response
\* after multiple attempts." if the third attempt returned a response that
\* is too short; errors of earlier attempts are not reported.
C18_ExhaustedMessage ==
    AllAttemptsFailed(LongerThanTen) =>
        result = IF ~LastCall.ok THEN ApologyMessage(LastCall.out)
                 ELSE UnableMessage

\* Three failed attempts of both kinds: a short response, then two
\* exceptions with different errors; the apology carries the last one.
C18_Witness ==
    /\ AllAttemptsFailed(LongerThanTen)
    /\ \E j \in InvokeCalls : calls[j].ok
    /\ ~LastCall.ok
    /\ ~calls[Len(calls) - 1].ok
    /\ calls[Len(calls) - 1].out # LastCall.out
    /\ result = ApologyMessage(LastCall.out)

\* ------------------------------------------------------------------------
\* C19: what the chunker returns
\* ------------------------------------------------------------------------
\* Every chunk returned is longer than 100 characters and is not made of
\* digits, whitespace, '-' and '.' only.
ChunksAreMeaningful ==
    \A j \in 1..Len(meaningful_chunks) :
        /\ StrLen(meaningful_chunks[j]) > 100
        /\ ~MatchesNumericOnly(meaningful_chunks[j])

SplitFailed == \E j \in CallsOf("split_text") : ~calls[j].ok

\* A blank text, and a text whose split_text call failed, give no chunks.
BlankOrFailedGivesNone ==
    (kpc = "returned" /\ (OnlyWhitespace(raw_text) \/ SplitFailed)) =>
        meaningful_chunks = <<>>

\* C19 as stated: for any input text and any chunk_size/chunk_overlap, every
\* chunk returned is longer than 100 characters and is not numbers only; a
\* blank input or a failure inside the splitter yields an empty chunk list
\* rather than an exception, so the chunker never raises.
C19_ChunkerNeverRaises ==
    /\ ChunksAreMeaningful
    /\ BlankOrFailedGivesNone
    /\ kpc # "raised"

\* C19 as amended: every chunk returned is longer than 100 characters and
\* is not numbers only; a blank input or a failure of the split_text call
\* yields an empty chunk list; but for a text that is not blank and a
\* chunk_overlap larger than chunk_size the construction of the splitter
\* raises a ValueError to the caller, before any split_text call, and that
\* is the only way the chunker raises.
C19_ChunkerFilters ==
    /\ ChunksAreMeaningful
    /\ BlankOrFailedGivesNone
    /\ kpc = "raised" <=>
          (kpc # "idle" /\ ~OnlyWhitespace(raw_text) /\ chunk_overlap > chunk_size)
    /\ kpc = "raised" =>
          /\ kerror[1] = "ValueError"
          /\ CallsOf("split_text") = {}
          /\ meaningful_chunks = <<>>
    /\ kpc # "raised" => kerror = NoError

\* The chunker returned one chunk, stripped of the whitespace around it, and
\* dropped a long piece made of numbers only.
C19_Witness ==
    /\ kpc = "returned"
    /\ Len(meaningful_chunks) = 1
    /\ \E j \in 1..Len(split_chunks) :
          /\ StrLen(Strip(split_chunks[j])) > 100
          /\ MatchesNumericOnly(Strip(split_chunks[j]))
    /\ \E j \in 1..Len(split_chunks) :
          /\ split_chunks[j] # Strip(split_chunks[j])
          /\ meaningful_chunks[1] = Strip(split_chunks[j])

\* ------------------------------------------------------------------------
\* C20: the three short chunks, one of them "Page 12"
\* ------------------------------------------------------------------------
\* The list was ingested and every upload went through.
ScenarioIngested ==
    /\ ipc = "returned"
    /\ text_chunks = ScenarioChunks
    /\ failed_uploads = 0

\* C20 as stated: ingesting the list drops the "Page 12" chunk and indexes
\* the two others, so that exactly 2 chunks are indexed.
C20_PageChunkDropped ==
    ScenarioIngested =>
        /\ successful_uploads = 2
        /\ remote_index = {0, 1}

\* C20 as amended: ingestion filters nothing: a record is built for each of
\* the 3 chunks, "Page 12" included, every one of them is uploaded or
\* counted as failed, and when every upload goes through all 3 are indexed.
\* The only filter is the chunker's, which keeps none of these chunks:
\* chunking their text with chunk_size=50 returns no chunk at all, or raises
\* when chunk_overlap is larger than 50.
C20_AllThreeIndexed ==
    /\ vectors # <<>> =>
          /\ Len(vectors) = 3
          /\ \A j \in 1..3 :
                /\ vectors[j].metadata.source_text = ScenarioChunks[j]
                /\ vectors[j].metadata.chunk_index = j - 1
    /\ ipc = "returned" =>
          /\ successful_uploads + failed_uploads = 3
          /\ successful_uploads = Cardinality(remote_index)
    /\ ScenarioIngested => remote_index = {0, 1, 2}
    /\ kpc = "returned" => meaningful_chunks = <<>>
    /\ kpc = "raised" <=> (kpc # "idle" /\ chunk_overlap > ScenarioChunkSize)

\* The list was ingested without a failure and the "Page 12" chunk is in the
\* index.
C20_Witness ==
    /\ ScenarioIngested
    /\ vectors[3].metadata.source_text = PageLine
    /\ vectors[3].metadata.chunk_index \in remote_index
    /\ successful_uploads = 3

\* ------------------------------------------------------------------------
\* C21: the index name of a session
\* ------------------------------------------------------------------------
BothNamed == session_id # <<>> /\ request_session_id # <<>>

\* The name is computed the same way at creation and at query time, and by
\* both definitions of get_session_index_name.
NamesAgree ==
    /\ session_id # <<>> =>
          index_name = VectorUtilsSessionIndexName(session_id)
    /\ request_session_id # <<>> =>
          store_name = VectorUtilsSessionIndexName(request_session_id)
    /\ (BothNamed /\ session_id = request_session_id) =>
          index_name = store_name

\* C21 as stated: the name computed at query time equals the name computed
\* at creation time for the same session id, both definitions agree, and
\* two distinct session ids never map to the same index name.
C21_NamesCollisionFree ==
    /\ NamesAgree
    /\ (BothNamed /\ session_id # request_session_id) =>
          index_name # store_name

\* C21 as amended: the name computed at query time equals the name computed
\* at creation time for the same session id and both definitions agree; two
\* session ids map to the same index name exactly when they are equal once
\* every '_' is replaced by '-', so distinct ids without '_' (such as the
\* uuid4 ids of upload) never collide, while an id with '_' collides with
\* the id that has '-' in its place.
C21_NamesCollideOnUnderscore ==
    /\ NamesAgree
    /\ BothNamed =>
          (index_name = store_name <=>
              ReplaceChar(session_id, "_", "-")
                  = ReplaceChar(request_session_id, "_", "-"))
    /\ (BothNamed /\ session_id # request_session_id
            /\ ~HasUnderscore(request_session_id)) =>
          index_name # store_name

\* A question that quotes an id with '_' is given the index of another
\* session, whose id has '-' there.
C21_Witness ==
    /\ BothNamed
    /\ session_id # request_session_id
    /\ HasUnderscore(request_session_id)
    /\ index_name = store_name

\* ------------------------------------------------------------------------
\* C22: every ingestion call and every answer call ends, whatever remote
\* calls fail: no batch sees more than 3 whole-batch put_vectors attempts,
\* no record more than one put_vectors attempt of its own, no answer call
\* more than 3 query_vectors attempts or more than 3 chain.invoke attempts,
\* the ingestion call started at the beginning eventually returns or raises,
\* and an answer call that is under way eventually returns or raises.
\* ------------------------------------------------------------------------
AttemptsBounded ==
    /\ \A a \in 0..NumChunks : Cardinality(BatchPuts(a)) <= 3
    /\ \A r \in 0..NumChunks : Cardinality(RecordPuts(r)) <= 1
    /\ Cardinality(CallsOf("query_vectors")) <= 3
    /\ Cardinality(CallsOf("invoke")) <= 3

C22_CallsTerminate ==
    /\ []AttemptsBounded
    /\ <>IngestEnded
    /\ (~AnswerEnded) ~> AnswerEnded

\* An ingestion whose batch failed three times and whose records then failed
\* one by one has returned, and the answer call after it has returned after
\* three failed generation attempts.
C22_Witness ==
    /\ ipc = "returned"
    /\ failed_uploads > 0
    /\ apc = "returned"
    /\ Cardinality(CallsOf("invoke")) = 3
    /\ \A j \in CallsOf("invoke") : ~calls[j].ok

\* ------------------------------------------------------------------------
\* C23: an answer call makes at most 3 query_vectors attempts; a failed first
\* or second attempt is followed by a pause of exactly 1 second and then by
\* the next attempt, and there is no other pause; a failed third attempt is
\* the last thing the call does: its error reaches the handler of the answer
\* call, which returns the search-error message carrying it, no candidate
\* has been taken or filtered and chain.invoke has not been called.
\* ------------------------------------------------------------------------
C23_QueryRetriesFixedPause ==
    /\ Cardinality(CallsOf("query_vectors")) <= 3
    /\ \A j \in CallsOf("query_vectors") :
          /\ calls[j].at + 1 = Cardinality({h \in CallsOf("query_vectors") : h <= j})
          /\ (~calls[j].ok /\ calls[j].at + 1 < 3) =>
                /\ j + 1 \in CallIdx
                /\ calls[j + 1].op = "sleep"
                /\ calls[j + 1].n = 1
                /\ (j + 2 \in CallIdx => calls[j + 2].op = "query_vectors")
                /\ (j + 2 \notin CallIdx => apc = "query")
          /\ (~calls[j].ok /\ calls[j].at + 1 = 3) =>
                /\ j = Len(calls)
                /\ apc = "returned"
                /\ result = SearchErrorMessage(calls[j].out)
                /\ candidates = <<>>
                /\ filtered_docs = <<>>
                /\ CallsOf("invoke") = {}
    /\ \A j \in CallsOf("sleep") :
          /\ j - 1 \in CallsOf("query_vectors")
          /\ ~calls[j - 1].ok

\* All three attempts failed, with two pauses between them.
C23_Witness ==
    /\ apc = "returned"
    /\ Cardinality(CallsOf("query_vectors")) = 3
    /\ \A j \in CallsOf("query_vectors") : ~calls[j].ok
    /\ Cardinality(CallsOf("sleep")) = 2

\* ------------------------------------------------------------------------
\* C24: however the requests in flight take their turns on the event loop,
\* get_cached_embeddings constructs at most one handle, and every handle a
\* request is returned is that one.
\* ------------------------------------------------------------------------
Received(getter) == UNION {given[t][getter] : t \in Requests}

Receivers(getter) == {t \in Requests : given[t][getter] # {}}

C24_EmbeddingsConstructedOnce ==
    /\ Cardinality(made.embeddings) <= 1
    /\ Received("embeddings") \subseteq made.embeddings

\* Every request in flight has been returned the handle, and the one that
\* was not the first to ask is still in its stretch.
C24_Witness ==
    /\ Receivers("embeddings") = Requests
    /\ Cardinality(made.embeddings) = 1
    /\ \E t \in Requests : hpc[t] = "between" /\ t \notin made.embeddings

\* ------------------------------------------------------------------------
\* C25: whatever thread is switched to between any two steps,
\* get_s3vectors_client constructs at most one client, exactly one once a
\* caller has been returned one, every caller is returned that one, and the
\* second test and the construction happen only under the lock.
\* ------------------------------------------------------------------------
C25_ClientConstructedOnce ==
    /\ Cardinality(made.client) <= 1
    /\ Received("client") \subseteq made.client
    /\ Receivers("client") # {} => Cardinality(made.client) = 1
    /\ \A t \in Requests :
          hpc[t] \in {"client retest", "client construct", "client release"}
              => client_lock = t

\* A thread that saw no client at the first test holds the lock after
\* another thread has constructed the client, and a third one waits for the
\* lock.
C25_Witness ==
    \E t1, t2, t3 \in Requests :
        /\ hpc[t1] = "client retest"
        /\ made.client = {t2}
        /\ t1 # t2
        /\ hpc[t3] = "client acquire"

\* ------------------------------------------------------------------------
\* C26: an ingestion call given an empty chunk list does nothing but raise
\* ValueError("Empty text chunks provided"): it makes no remote call and no
\* pause, does not fetch the embedding handle or the client, stores nothing,
\* and once it has raised it stays raised.
\* ------------------------------------------------------------------------
C26_EmptyListRejected ==
    NumChunks = 0 =>
        /\ ipc \in {"entry", "raised"}
        /\ ipc = "raised" => ierror = ValueError("Empty text chunks provided")
        /\ calls = <<>>
        /\ embeddings_cache = None
        /\ s3vectors_client_cache = None
        /\ all_embeddings = <<>>
        /\ vectors = <<>>
        /\ remote_index = {}
        /\ retry_count = 0
        /\ successful_uploads = 0
        /\ failed_uploads = 0

C26_Witness ==
    /\ NumChunks = 0
    /\ ipc = "raised"
    /\ ierror = ValueError("Empty text chunks provided")

\* ------------------------------------------------------------------------
\* C29: in create_vector_index a get_index that fails, for a missing index
\* or for any other reason, is never what the call raises: the next request
\* is create_index.  The call raises only without a bucket, before any
\* request, or with the error of a failed create_index as its last request.
\* ------------------------------------------------------------------------
C29_LookupFailureMeansMissing ==
    /\ \A j \in CallsOf("get_index") :
          ~calls[j].ok =>
              /\ cerror # calls[j].out
              /\ IF j + 1 \in CallIdx
                 THEN calls[j + 1].op = "create_index"
                 ELSE cpc = "create_index"
    /\ cpc = "raised" =>
          \/ /\ s3_bucket = None
             /\ calls = <<>>
             /\ cerror = ValueError("S3 bucket is required")
          \/ /\ s3_bucket # None
             /\ calls # <<>>
             /\ LastCall.op = "create_index"
             /\ ~LastCall.ok
             /\ cerror = LastCall.out

\* The lookup of an index the store holds failed, create_index was asked
\* for, and its refusal is what the call raised.
C29_Witness ==
    /\ cpc = "raised"
    /\ Len(calls) = 2
    /\ calls[1].op = "get_index" /\ ~calls[1].ok /\ calls[1].out = UnavailableText
    /\ calls[2].op = "create_index" /\ ~calls[2].ok /\ calls[2].out = ConflictText
    /\ index_name \in DOMAIN remote_indexes

\* ------------------------------------------------------------------------
\* C30: a step either is the clear, which empties both caches, or keeps
\* every entry of the response cache and of the query-embedding cache with
\* its value, and changes nothing in a cache that is at its cap; and a call
\* that finds its key in the response cache returns the value stored there.
\* ------------------------------------------------------------------------
C30_CachesRefuseWhenFull ==
    [][LET Kept(cache, after) ==
               \A key \in DOMAIN cache : key \in DOMAIN after /\ after[key] = cache[key]
           key == ResponseCacheKey(question', store_name', k')
       IN \/ /\ response_cache' = <<>>
             /\ query_embedding_cache' = <<>>
             /\ UNCHANGED <<alocals, calls>>
          \/ /\ Kept(response_cache, response_cache')
             /\ Kept(query_embedding_cache, query_embedding_cache')
             /\ Cardinality(DOMAIN response_cache) >= ResponseCacheCap
                    => response_cache' = response_cache
             /\ Cardinality(DOMAIN query_embedding_cache) >= QueryCacheCap
                    => query_embedding_cache' = query_embedding_cache
             /\ (StartsCall /\ ~IsBlank(question') /\ key \in DOMAIN response_cache)
                    => result' = response_cache[key]]_vars

\* The response cache is full of other keys: a call whose query embedding
\* came from its cache has returned a generated answer that was not stored.
C30_Witness ==
    /\ apc = "returned"
    /\ GeneratorReturned
    /\ Cardinality(DOMAIN response_cache) = ResponseCacheCap
    /\ ResponseCacheKey(question, store_name, k) \notin DOMAIN response_cache
    /\ QueryCacheKey(question) \in DOMAIN query_embedding_cache
    /\ CallsOf("embed_query") = {}

\* ------------------------------------------------------------------------
\* C27: the files of one upload
\* ------------------------------------------------------------------------
FailedFiles == {d \in DOMAIN file_results : file_results[d] = "HTTPException"}

UnreadFiles == {temp_paths[j] : j \in {h \in 1..Len(extracted) : extracted[h] = <<>>}}

\* The files the response names as failed.
ErrorsReported ==
    IF upload_response # NoResult /\ upload_response[2][1] = "Failed to process"
    THEN {upload_response[2][2]}
    ELSE {}

Collected == upc \notin {"idle", "process"} /\ file_results # <<>>

\* C27 as stated: once the results are collected, every file that was
\* processed is among the files the upload goes on with, and the response
\* names every file whose processing or text extraction failed.
C27_FailuresCollectedAsStated ==
    Collected =>
        /\ \A d \in DOMAIN file_results :
              file_results[d] = "tuple" => \E j \in 1..Len(temp_paths) : temp_paths[j] = d
        /\ upc = "responded" => (FailedFiles \cup UnreadFiles) \subseteq ErrorsReported

\* C27 as amended: every file is processed to its end before the results are
\* collected.  If the processing of any file failed, the upload ends there
\* with a 400 that names the first such file: no text is extracted, nothing
\* is chunked or called, and the files after it are not collected.  Else all
\* files are collected in order, the text of each is extracted whatever
\* happened to the others, a file that could not be read counts as the empty
\* text, the texts are joined in order, and the response names no file.
C27_FirstFailureEndsUpload ==
    Collected =>
        /\ \A d \in DOMAIN file_results : file_results[d] # "pending"
        /\ IF FailedFiles = {}
           THEN /\ temp_paths = [d \in DOMAIN file_results |-> d]
                /\ \A j \in 1..Len(extracted) :
                      extracted[j] \in {DocText(temp_paths[j]), <<>>}
                /\ upc \in {"chunk", "index", "ingest"} =>
                      /\ Len(extracted) = Len(temp_paths)
                      /\ combined_text = Format(extracted)
                /\ ErrorsReported = {}
           ELSE /\ upc = "responded"
                /\ \E first \in FailedFiles :
                      /\ \A d \in FailedFiles : first <= d
                      /\ upload_response = <<400, <<"Failed to process", first>>>>
                      /\ temp_paths = [d \in 1..(first - 1) |-> d]
                /\ extracted = <<>>
                /\ combined_text = <<>>
                /\ kpc = "idle" /\ cpc = "idle" /\ ipc = "idle"
                /\ calls = <<>>

\* An upload of two files was answered with success although the text of
\* one of them could not be read.
C27_Witness ==
    /\ upc = "responded"
    /\ upload_response[1] = 200
    /\ Len(temp_paths) > 1
    /\ UnreadFiles # {}
    /\ combined_text # <<>>

\* ------------------------------------------------------------------------
\* C28: in an upload, every embedding and every upload request comes after
\* the requests of create_vector_index, which has returned by then; every
\* embedding request comes before every put_vectors request; when the first
\* put_vectors is made every chunk has its embedding and its record; and
\* when create_vector_index raised, no embedding or upload request is made
\* and the ingestion is not started.
\* ------------------------------------------------------------------------
IndexRequests == CallsOf("get_index") \cup CallsOf("create_index")

EmbedRequests == CallsOf("embed_documents") \cup CallsOf("embed_query")

C28_IndexThenEmbedThenUpload ==
    /\ (EmbedRequests \cup UploadCalls) # {} =>
          /\ cpc = "returned"
          /\ IndexRequests # {}
    /\ \A h \in IndexRequests, j \in EmbedRequests \cup UploadCalls : h < j
    /\ \A e \in EmbedRequests, u \in UploadCalls : e < u
    /\ UploadCalls # {} =>
          /\ Len(all_embeddings) = NumChunks
          /\ Len(vectors) = NumChunks
    /\ cpc = "raised" =>
          /\ ipc = "idle"
          /\ EmbedRequests \cup UploadCalls = {}

\* The index was created, two batches were embedded and two uploaded, and
\* the upload was answered with success.
C28_Witness ==
    /\ upc = "responded"
    /\ upload_response[1] = 200
    /\ \E h \in CallsOf("create_index") : calls[h].ok
    /\ Cardinality(CallsOf("embed_documents")) > 1
    /\ Cardinality({calls[u].at : u \in UploadCalls}) > 1

\* ------------------------------------------------------------------------
\* C31: what the response cache holds
\* ------------------------------------------------------------------------
\* The messages an answer call returns before the generator is called.
EarlyMessages ==
    {BlankQuestionMessage, NoRelevantMessage}
        \cup {SearchErrorMessage(e) : e \in ProviderErrorTexts}

\* The messages get_response_with_retry returns when every attempt failed.
GeneratorFailureMessages ==
    {UnableMessage} \cup {ApologyMessage(e) : e \in GenerationErrorTexts}

CachedResponses == {response_cache[key] : key \in DOMAIN response_cache}

\* C31: the response cache holds no failure or degradation message: not the
\* blank-question message, the no-relevant message or the search-error
\* message, and not the generator's apology or its "Unable to generate a
\* response" message; and no answer call returns such a message without
\* having called a provider.
C31_OnlyAnswersCached ==
    /\ CachedResponses \cap (EarlyMessages \cup GeneratorFailureMessages) = {}
    /\ (apc = "returned" /\ result \in GeneratorFailureMessages) => calls # <<>>

\* The part of C31 that the code keeps: the messages returned before the
\* generator is called are never stored.
EarlyMessagesNeverCached == CachedResponses \cap EarlyMessages = {}

\* A call answered from the cache with a message of the failed generator,
\* without any provider call.
FailureReplayed ==
    /\ apc = "returned"
    /\ calls = <<>>
    /\ result \in GeneratorFailureMessages

\* ------------------------------------------------------------------------
\* Answer calls of several sessions whose questions hold '_' and the text of
\* an index name, with two values of k, so that the response keys of
\* different indexes come as close to each other as they can.
\* ------------------------------------------------------------------------
KeySessionIds ==
    {Chars("a", 1), Chars("b", 1),
     Format(<<Chars("a", 1), Chars("_", 1), Chars("b", 1)>>)}

KeyQuestions ==
    {Chars("x", 1),
     Cat(Chars("x", 1), Chars("_", 1)),
     Format(<<Chars("x", 1), Chars("_", 1), GetSessionIndexName(Chars("a", 1)),
              Chars("_", 1), Chars("1", 1)>>)}

KeyTopKs == {1, 11}

AskKeyed ==
    \E q \in KeyQuestions, sid \in KeySessionIds, kk \in KeyTopKs :
        AskQuestion(q, sid, kk)

QueryReturnsOne == QueryReply(<<Candidate(LongText, NearDistance)>>)

GenerateReturnsAnswer == GenerateReturn(Chars("a", MinResponseLen + 1))

NextKeys ==
    \/ AskKeyed
    \/ EmbedQueryReturns
    \/ QueryReturnsOne
    \/ GenerateReturnsAnswer
    \/ ClearCaches

SpecKeys == InitAnswer /\ [][NextKeys]_vars

\* ------------------------------------------------------------------------
\* C32: cached answers and indexes
\* ------------------------------------------------------------------------
\* The index name a response key was built from, read from the right: the
\* text between the last two '_' of the key.
IndexOfKey(key) ==
    LET seps == {j \in 1..Len(key) : key[j].ch = "_"}
        last == CHOOSE j \in seps : \A h \in seps : h <= j
        before == CHOOSE j \in seps \ {last} : \A h \in seps \ {last} : h <= j
    IN IF Cardinality(seps) < 2 \/ key[last].n > 1
       THEN <<>>
       ELSE SubSeq(key, before + 1, last - 1)

ResponseCacheHit ==
    /\ apc \in {"idle", "returned"}
    /\ apc' = "returned"
    /\ calls' = <<>>
    /\ ~IsBlank(question')
    /\ ResponseCacheKey(question', store_name', k') \in DOMAIN response_cache
    /\ result' = response_cache[ResponseCacheKey(question', store_name', k')]

\* C32: an answer is stored under a key that names the index of the call
\* that stored it and no other, and a call answered from the response cache
\* takes the entry of a key that names its own index: for any question, also
\* one holding '_', and any k, no call is answered with an entry stored by a
\* call against a different index.
C32_NoLeakAcrossIndexes ==
    [][/\ \A key \in DOMAIN response_cache' \ DOMAIN response_cache :
              /\ key = ResponseCacheKey(question, store_name, k)
              /\ IndexOfKey(key) = store_name
       /\ ResponseCacheHit =>
              IndexOfKey(ResponseCacheKey(question', store_name', k')) = store_name'
       /\ \A key \in DOMAIN response_cache \cap DOMAIN response_cache' :
              response_cache'[key] = response_cache[key]]_vars

\* A call whose question holds the name of another session's index was
\* answered from the cache while the cache also holds an answer stored for
\* that other index.
C32_Witness ==
    /\ apc = "returned"
    /\ calls = <<>>
    /\ store_name = GetSessionIndexName(Chars("b", 1))
    /\ Len(question) > 2
    /\ ResponseCacheKey(question, store_name, k) \in DOMAIN response_cache
    /\ \E key \in DOMAIN response_cache :
          IndexOfKey(key) = GetSessionIndexName(Chars("a", 1))

\* ------------------------------------------------------------------------
\* C33: the temporary files of an upload
\* ------------------------------------------------------------------------
UploadEnded == upc = "responded"

\* C33: after an upload request has ended, in success or in failure, every
\* temporary file created for it is eventually removed; also the files of
\* the other documents when one document failed to process.
C33_TempFilesRemoved == UploadEnded ~> (temp_files = {})

\* What the code keeps: the files that were collected into temp_paths are
\* eventually removed after the request has ended.
CollectedFilesRemoved ==
    UploadEnded ~> (temp_files \cap {temp_paths[j] : j \in DOMAIN temp_paths} = {})

\* An upload ended by a file that failed to process, with the temporary file
\* of a later file left on disk.
TempFileLeft ==
    /\ UploadEnded
    /\ upload_response[1] = 400
    /\ FailedFiles # {}
    /\ temp_files # {}
====
